---- MODULE Spec2Model ----
(***************************************************************************)
(* Process-data acquisition layer of psutil (Windows backend,              *)
(* _psutil_windows.c, and the macOS helpers of arch/osx/process_info.c):   *)
(* one in-flight query at a time, executed native call by native call,     *)
(* against an environment in which the target process may exit at any      *)
(* moment.                                                                 *)
(*                                                                         *)
(* Native calls and heap allocations (MALLOC_ZERO, malloc) may fail.  The  *)
(* construction of interpreter objects (PyList_New, Py_BuildValue,         *)
(* PyList_Append, PyUnicode_FromWideChar) belongs to the binding layer and *)
(* is taken to succeed, except for the decoding of the environment block   *)
(* in psutil_proc_environ, whose failure path frees memory on its own.     *)
(***************************************************************************)
EXTENDS Integers, Sequences, FiniteSets, TLC

\* ------------------------------------------------------------------ bounds
MaxPid == 2
MaxThreads == 2
MaxAddr == 2
MaxRegionSize == 2
MaxEntries == 3
MaxShareCount == 3
MaxBody == 6
MaxArgc == 5
MaxOverrun == 2
MaxProcs == 2

\* ------------------------------------------------------- program constants
NULL == 0
INVALID_HANDLE_VALUE == -1
WSET_INITIAL_SIZE == 32768
WSET_MAX_SIZE == 268435456
EXE_INITIAL_SIZE == 520
EXE_MAX_SIZE == 65534
USHORT_RANGE == 65536
TOKEN_INITIAL_SIZE == 256
NAME_INITIAL_SIZE == 256
SIZEOF_WCHAR == 2
SIZEOF_INT == 4
NUL == 0
NOT_FOUND == -1

VARIABLES
    running,        \* pids of the processes currently alive (environment)
    gil,            \* TRUE while the calling thread holds the interpreter lock
    fn, pc, pid,    \* the query in flight, its position, its pid argument
    err, ret,       \* pending exception and return value of the query
    hProcess, hToken, hThreadSnap, hThread,   \* handle locals
    open,           \* handle ids currently open
    nextH,          \* id the next successfully opened handle gets
    closeCnt,       \* handle id -> number of CloseHandle calls made on it
    badClose,       \* CloseHandle calls on a value that is no opened handle
    lastError,      \* GetLastError()
    status,         \* NTSTATUS of the last native NT query
    retVal,         \* result of WaitForSingleObject / BOOL of the last call
    calls,          \* names of the native calls issued by this query
    liveness,       \* results of the psutil_pid_is_running calls, in order
    ntCalls,        \* number of native NT queries issued by this query
    bufferSize, buffer, MaximumLength, userToken,
    heapLive,       \* heap buffers allocated by this query and not yet freed
    maxAlloc,       \* largest buffer size this query has allocated
    te32,           \* index of the current thread-snapshot entry
    py_retlist,     \* list under construction, or PyNull
    baseAddress,    \* memory-map walk pointer
    userName, domainName,       \* name buffers of psutil_proc_username
    nameSize, domainNameSize,   \* their sizes in WCHARs
    badFree,        \* free() calls on a pointer that was already freed
    wsInfo,         \* working-set table: entries [Shared, ShareCount]
    i,              \* index of the next working-set entry to examine
    NumberOfPrivatePages,       \* wsCounters.NumberOfPrivatePages
    procargs, procenv,          \* buffers of the macOS decoders
    procargsBytes,  \* contents of procargs up to the declared length
    procenvBytes,   \* contents of procenv
    argmax,         \* kern.argmax, then the length sysctl declared
    nargs, arg_ptr, curr_arg, env_start,   \* decoder locals (byte offsets)
    py_ret,         \* bytes handed to the string decoder by psutil_proc_environ
    oob,            \* a byte at or beyond procargs + argmax has been read
    pass,           \* number of times the buffer has been decoded
    firstResult,    \* fields the first decoding returned
    handle,         \* snapshot handle of psutil_ppid_map
    snapshot,       \* entries [th32ProcessID, th32ParentProcessID] of the snapshot
    pe,             \* index of the snapshot entry held in pe (0: none)
    py_retdict,     \* dict under construction, or PyNull
    snapCnt,        \* number of snapshots this query has taken
    suspend,        \* flag argument of psutil_proc_suspend_or_resume
    access,         \* access right the process handle was requested with
    otherThread,    \* another interpreter thread: "idle" or "running" a query
    otherDone,      \* a query of the other thread completed during this query
    regions,        \* regions VirtualQueryEx reported: [BaseAddress, RegionSize, named]
    passed,         \* buffer sizes passed to NtQueryVirtualMemory, in order
    mismatches,     \* number of STATUS_INFO_LENGTH_MISMATCH responses to them
    declaredSize,       \* ImageName.MaximumLength passed to the last exe query
    allocatedSize,      \* size of the buffer passed to the last exe query
    Threads,        \* process->Threads: entries [ThreadState, WaitReason]
    lim,            \* attempts psutil_get_proc_list has left
    listSize, size2,    \* its `size` variable and the size with 1/8 added
    ptr,            \* the buffer of the current attempt
    procList,       \* *procList, the buffer handed to the caller
    procCount,      \* *procCount
    asked,          \* the size the sizing sysctl reported in this attempt
    fills,          \* outcomes of the filling sysctl calls, in order
    sysctl_errno    \* errno the failing sysctl(KERN_PROCARGS2) set

env  == <<running, gil>>
hnd  == <<hProcess, hToken, hThreadSnap, hThread, open, nextH, closeCnt, badClose>>
nat  == <<lastError, status, retVal, calls, liveness, ntCalls>>
mem  == <<bufferSize, buffer, MaximumLength, userToken, heapLive, maxAlloc>>
walk == <<te32, py_retlist, baseAddress>>
usr  == <<userName, domainName, nameSize, domainNameSize, badFree>>
wsc  == <<wsInfo, i, NumberOfPrivatePages>>
osx  == <<procargs, procenv, procargsBytes, procenvBytes, argmax, nargs,
          arg_ptr, curr_arg, env_start, py_ret, oob, pass, firstResult>>
snp  == <<handle, snapshot, pe, py_retdict, snapCnt>>
tog  == <<suspend, access>>
thr  == <<otherThread, otherDone>>
hst  == <<regions, passed, mismatches, declaredSize, allocatedSize>>
sus  == <<Threads>>
pl   == <<lim, listSize, size2, ptr, procList, procCount, asked, fills>>
more == <<sus, pl, sysctl_errno>>
misc == <<snp, tog, thr, hst, more>>
vars == <<running, gil, fn, pc, pid, err, ret, hProcess, hToken, hThreadSnap,
          hThread, open, nextH, closeCnt, badClose, lastError, status, retVal,
          calls, liveness, ntCalls, bufferSize, buffer, MaximumLength,
          userToken, heapLive, maxAlloc, te32, py_retlist, baseAddress,
          userName, domainName, nameSize, domainNameSize, badFree,
          wsInfo, i, NumberOfPrivatePages,
          procargs, procenv, procargsBytes, procenvBytes, argmax, nargs,
          arg_ptr, curr_arg, env_start, py_ret, oob, pass, firstResult,
          handle, snapshot, pe, py_retdict, snapCnt, suspend, access,
          otherThread, otherDone, regions, passed, mismatches, declaredSize,
          allocatedSize, Threads, lim, listSize, size2, ptr, procList, procCount,
          asked, fills, sysctl_errno>>

Pids == 0 .. MaxPid
MaxHandles == MaxThreads + 2
Functions == {"psutil_proc_kill", "psutil_proc_wait", "psutil_proc_times",
              "psutil_proc_exe", "psutil_proc_memory_uss",
              "psutil_proc_threads", "psutil_proc_memory_maps",
              "_psutil_user_token_from_pid", "psutil_proc_username",
              "psutil_proc_suspend_or_resume", "psutil_ppid_map",
              "psutil_proc_is_suspended"}

\* ---------------------------------------------------------------- helpers
NoError == [kind |-> "none", code |-> "", syscall |-> ""]

SetError(kind, code, syscall) == [kind |-> kind, code |-> code, syscall |-> syscall]

NoSuchProcess(msg) == SetError("NoSuchProcess", "", msg)

AccessDenied(msg) == SetError("AccessDenied", "", msg)

PyErr_SetFromOSErrnoWithSyscall(code, syscall) == SetError("OSError", code, syscall)

psutil_SetFromNTStatusErr(st, syscall) == SetError("NTStatusError", st, syscall)

PyErr_NoMemory == SetError("MemoryError", "", "")

\* a PyObject * list variable: NULL, or a list holding `items`
PyNull == [alloc |-> FALSE, items |-> <<>>]

PyList(items) == [alloc |-> TRUE, items |-> items]

\* a PyObject * dict variable holding the <<key, value>> pairs `items`
PyDict(items) == [alloc |-> TRUE, items |-> items]

\* PyDict_SetItem(d, k, v) on the pairs of a dict: a key is held once
PyDict_SetItem(d, k, v) ==
    IF \E j \in 1 .. Len(d) : d[j][1] = k
    THEN [j \in 1 .. Len(d) |-> IF d[j][1] = k THEN <<k, v>> ELSE d[j]]
    ELSE Append(d, <<k, v>>)

NT_SUCCESS(st) == st = "STATUS_SUCCESS"

\* psutil_pid_is_running(p): 1 running, 0 not running, -1 on its own failure
psutil_pid_is_running(p) == {IF p \in running THEN 1 ELSE 0, -1}

\* CloseHandle(h) applied to the handle table <<open, closeCnt, badClose>>
CloseHandle(tbl, h) ==
    IF h \in 1 .. MaxHandles
    THEN [open |-> tbl.open \ {h},
          closeCnt |-> [tbl.closeCnt EXCEPT ![h] = @ + 1],
          badClose |-> IF h \in tbl.open THEN tbl.badClose ELSE tbl.badClose + 1]
    ELSE [tbl EXCEPT !.badClose = @ + 1]

HandleTable == [open |-> open, closeCnt |-> closeCnt, badClose |-> badClose]

SetHandleTable(tbl) ==
    /\ open' = tbl.open
    /\ closeCnt' = tbl.closeCnt
    /\ badClose' = tbl.badClose

\* the query returns: the interpreter sees `r` and the pending exception `e`
Finish(r, e) ==
    /\ pc' = "done"
    /\ ret' = r
    /\ err' = e

\* ------------------------------------------------------------------- Init
Init ==
    /\ running \in SUBSET (1 .. MaxPid)
    /\ gil = TRUE
    /\ fn = "none" /\ pc = "idle" /\ pid = 0
    /\ err = NoError /\ ret = "pending"
    /\ hProcess = NULL /\ hToken = NULL /\ hThreadSnap = NULL /\ hThread = NULL
    /\ open = {} /\ nextH = 1
    /\ closeCnt = [h \in 1 .. MaxHandles |-> 0]
    /\ badClose = 0
    /\ lastError = "ERROR_SUCCESS" /\ status = "unset" /\ retVal = "unset"
    /\ calls = {} /\ liveness = <<>> /\ ntCalls = 0
    /\ bufferSize = 0 /\ buffer = "NULL" /\ MaximumLength = 0
    /\ userToken = "NULL" /\ heapLive = 0 /\ maxAlloc = 0
    /\ te32 = 0 /\ py_retlist = PyNull /\ baseAddress = 0
    /\ userName = "NULL" /\ domainName = "NULL"
    /\ nameSize = 0 /\ domainNameSize = 0 /\ badFree = 0
    /\ wsInfo = <<>> /\ i = 0 /\ NumberOfPrivatePages = 0
    /\ procargs = "NULL" /\ procenv = "NULL"
    /\ procargsBytes = <<>> /\ procenvBytes = <<>>
    /\ argmax = 0 /\ nargs = 0 /\ arg_ptr = 0 /\ curr_arg = 0 /\ env_start = 0
    /\ py_ret = <<>> /\ oob = FALSE /\ pass = 0 /\ firstResult = <<>>
    /\ handle = NULL /\ snapshot = <<>> /\ pe = 0 /\ py_retdict = PyNull
    /\ snapCnt = 0 /\ suspend = FALSE /\ access = "unset"
    /\ otherThread = "idle" /\ otherDone = FALSE
    /\ regions = <<>> /\ passed = <<>> /\ mismatches = 0
    /\ declaredSize = 0 /\ allocatedSize = 0
    /\ Threads = <<>>
    /\ lim = 0 /\ listSize = 0 /\ size2 = 0 /\ ptr = "NULL"
    /\ procList = "NULL" /\ procCount = 0 /\ asked = 0 /\ fills = <<>>
    /\ sysctl_errno = "unset"

\* ------------------------------------------------------------ environment
\* the target (or any other) process exits while a query is in flight
ProcessExit ==
    /\ \E p \in running : running' = running \ {p}
    /\ UNCHANGED <<gil, fn, pc, pid, err, ret, hnd, nat, mem, walk>>
    /\ UNCHANGED <<usr, wsc, osx, misc>>

\* a new process starts and gets a free pid (a pid is not reused while a
\* query on it is in flight)
ProcessStart ==
    /\ \E p \in (1 .. MaxPid) \ running :
        /\ pc = "idle" \/ p # pid
        /\ running' = running \cup {p}
    /\ UNCHANGED <<gil, fn, pc, pid, err, ret, hnd, nat, mem, walk>>
    /\ UNCHANGED <<usr, wsc, osx, misc>>

\* the binding layer invokes one query with a pid argument
Call ==
    /\ pc = "idle"
    /\ \E f \in Functions, p \in Pids :
        /\ fn' = f
        /\ pid' = p
    /\ pc' = "entry"
    /\ UNCHANGED <<env, err, ret, hnd, nat, mem, walk>>
    /\ UNCHANGED <<usr, wsc, osx, misc>>

\* the query's result is consumed; the next query starts from a clean frame
Return ==
    /\ pc = "done"
    /\ gil' = TRUE
    /\ fn' = "none" /\ pc' = "idle" /\ pid' = 0
    /\ err' = NoError /\ ret' = "pending"
    /\ hProcess' = NULL /\ hToken' = NULL /\ hThreadSnap' = NULL /\ hThread' = NULL
    /\ open' = {} /\ nextH' = 1
    /\ closeCnt' = [h \in 1 .. MaxHandles |-> 0]
    /\ badClose' = 0
    /\ lastError' = "ERROR_SUCCESS" /\ status' = "unset" /\ retVal' = "unset"
    /\ calls' = {} /\ liveness' = <<>> /\ ntCalls' = 0
    /\ bufferSize' = 0 /\ buffer' = "NULL" /\ MaximumLength' = 0
    /\ userToken' = "NULL" /\ heapLive' = 0 /\ maxAlloc' = 0
    /\ te32' = 0 /\ py_retlist' = PyNull /\ baseAddress' = 0
    /\ userName' = "NULL" /\ domainName' = "NULL"
    /\ nameSize' = 0 /\ domainNameSize' = 0 /\ badFree' = 0
    /\ wsInfo' = <<>> /\ i' = 0 /\ NumberOfPrivatePages' = 0
    /\ procargs' = "NULL" /\ procenv' = "NULL"
    /\ procargsBytes' = <<>> /\ procenvBytes' = <<>>
    /\ argmax' = 0 /\ nargs' = 0 /\ arg_ptr' = 0 /\ curr_arg' = 0 /\ env_start' = 0
    /\ py_ret' = <<>> /\ oob' = FALSE /\ pass' = 0 /\ firstResult' = <<>>
    /\ handle' = NULL /\ snapshot' = <<>> /\ pe' = 0 /\ py_retdict' = PyNull
    /\ snapCnt' = 0 /\ suspend' = FALSE /\ access' = "unset"
    /\ otherDone' = FALSE
    /\ regions' = <<>> /\ passed' = <<>> /\ mismatches' = 0
    /\ declaredSize' = 0 /\ allocatedSize' = 0
    /\ Threads' = <<>>
    /\ lim' = 0 /\ listSize' = 0 /\ size2' = 0 /\ ptr' = "NULL"
    /\ procList' = "NULL" /\ procCount' = 0 /\ asked' = 0 /\ fills' = <<>>
    /\ sysctl_errno' = "unset"
    /\ UNCHANGED <<running, otherThread>>

\* -------------------------------------------------- handle acquisition
\* GetLastError() values OpenProcess can fail with for pid p
OpenProcessErrors(p) ==
    IF p \in running
    THEN {"ERROR_ACCESS_DENIED", "ERROR_GEN_FAILURE"}
    ELSE {"ERROR_INVALID_PARAMETER", "ERROR_ACCESS_DENIED", "ERROR_GEN_FAILURE"}

\* error raised for a NULL handle: "no such process" code -> NoSuchProcess,
\* the ambiguous access-denied code is settled by liveness, the rest is fatal
psutil_check_phandle(e, alive) ==
    IF e = "ERROR_INVALID_PARAMETER"
    THEN NoSuchProcess("OpenProcess -> ERROR_INVALID_PARAMETER")
    ELSE IF e = "ERROR_ACCESS_DENIED"
         THEN IF alive THEN AccessDenied("OpenProcess -> ERROR_ACCESS_DENIED")
                       ELSE NoSuchProcess("psutil_pid_is_running -> 0")
         ELSE PyErr_SetFromOSErrnoWithSyscall(e, "OpenProcess")

\* OpenProcess(access, FALSE, pid) succeeded: hProcess is a fresh open handle
OpenProcessOk ==
    /\ pid \in running
    /\ hProcess' = nextH
    /\ open' = open \cup {nextH}
    /\ nextH' = nextH + 1
    /\ lastError' = "ERROR_SUCCESS"
    /\ calls' = calls \cup {"OpenProcess"}
    /\ UNCHANGED <<hToken, hThreadSnap, hThread, closeCnt, badClose>>

\* psutil_handle_from_pid(pid, access): on success continue at `next` with
\* hProcess open, on failure return NULL with the normalized error
psutil_handle_from_pid(next) ==
    \/ /\ pid = 0
       /\ Finish("NULL", AccessDenied("automatically set for PID 0"))
       /\ UNCHANGED <<hnd, lastError, calls, liveness>>
    \/ /\ pid # 0
       /\ OpenProcessOk
       /\ pc' = next
       /\ UNCHANGED <<err, ret, liveness>>
    \/ /\ pid # 0
       /\ \E e \in OpenProcessErrors(pid) :
            /\ lastError' = e
            /\ Finish("NULL", psutil_check_phandle(e, pid \in running))
            /\ liveness' = IF e = "ERROR_ACCESS_DENIED"
                           THEN Append(liveness, IF pid \in running THEN 1 ELSE 0)
                           ELSE liveness
       /\ calls' = calls \cup {"OpenProcess"}
       /\ UNCHANGED hnd

\* ------------------------------------------------------ psutil_proc_kill
\* (mutant) the pid 0 short-circuit is missing
kill_entry_NoPid0Check ==
    /\ fn = "psutil_proc_kill" /\ pc = "entry"
    /\ pc' = "OpenProcess"
    /\ UNCHANGED <<env, fn, pid, err, ret, hnd, nat, mem, walk>>
    /\ UNCHANGED <<usr, wsc, osx, misc>>

kill_entry ==
    /\ fn = "psutil_proc_kill" /\ pc = "entry"
    /\ IF pid = 0
       THEN Finish("NULL", AccessDenied("automatically set for PID 0"))
       ELSE pc' = "OpenProcess" /\ UNCHANGED <<err, ret>>
    /\ UNCHANGED <<env, fn, pid, hnd, nat, mem, walk>>
    /\ UNCHANGED <<usr, wsc, osx, misc>>

kill_OpenProcess ==
    /\ fn = "psutil_proc_kill" /\ pc = "OpenProcess"
    /\ \/ /\ OpenProcessOk
          /\ pc' = "TerminateProcess"
          /\ UNCHANGED <<err, ret, liveness>>
       \/ /\ \E e \in OpenProcessErrors(pid) :
               /\ lastError' = e
               /\ Finish("NULL", psutil_check_phandle(e, pid \in running))
               /\ liveness' = IF e = "ERROR_ACCESS_DENIED"
                              THEN Append(liveness, IF pid \in running THEN 1 ELSE 0)
                              ELSE liveness
          /\ calls' = calls \cup {"OpenProcess"}
          /\ UNCHANGED hnd
    /\ UNCHANGED <<env, fn, pid, status, retVal, ntCalls, mem, walk>>
    /\ UNCHANGED <<usr, wsc, osx, misc>>

\* (mutant) no native code is suppressed
kill_error_is_raised_Always(e) == TRUE

\* a failed TerminateProcess raises unless GetLastError() is ERROR_ACCESS_DENIED
kill_error_is_raised(e) == e # "ERROR_ACCESS_DENIED"

\* TerminateProcess(hProcess, SIGTERM) and the rest of the function
kill_TerminateProcess ==
    /\ fn = "psutil_proc_kill" /\ pc = "TerminateProcess"
    /\ calls' = calls \cup {"TerminateProcess"}
    /\ \/ /\ pid \in running                      \* terminated
          /\ running' = running \ {pid}
          /\ retVal' = "TRUE"
          /\ lastError' = "ERROR_SUCCESS"
          /\ SetHandleTable(CloseHandle(HandleTable, hProcess))
          /\ Finish("None", NoError)
       \/ /\ retVal' = "FALSE"                    \* refused, or already dead
          /\ \E e \in {"ERROR_ACCESS_DENIED", "ERROR_GEN_FAILURE"} :
               /\ lastError' = e
               /\ IF kill_error_is_raised(e)
                  THEN /\ Finish("NULL", PyErr_SetFromOSErrnoWithSyscall(
                                             e, "TerminateProcess"))
                       /\ UNCHANGED <<open, closeCnt, badClose>>
                  ELSE /\ SetHandleTable(CloseHandle(HandleTable, hProcess))
                       /\ Finish("None", NoError)
          /\ UNCHANGED running
    /\ UNCHANGED <<gil, fn, pid, hProcess, hToken, hThreadSnap, hThread, nextH,
                   status, liveness, ntCalls, mem, walk>>
    /\ UNCHANGED <<usr, wsc, osx, misc>>

psutil_proc_kill == kill_entry \/ kill_OpenProcess \/ kill_TerminateProcess

\* ------------------------------------------------------ psutil_proc_wait
wait_entry ==
    /\ fn = "psutil_proc_wait" /\ pc = "entry"
    /\ IF pid = 0
       THEN Finish("NULL", AccessDenied("automatically set for PID 0"))
       ELSE pc' = "OpenProcess" /\ UNCHANGED <<err, ret>>
    /\ UNCHANGED <<env, fn, pid, hnd, nat, mem, walk>>
    /\ UNCHANGED <<usr, wsc, osx, misc>>

\* (mutant) the lock is kept across the wait
Py_BEGIN_ALLOW_THREADS_Missing == TRUE

\* Py_BEGIN_ALLOW_THREADS: the calling thread no longer holds the lock
Py_BEGIN_ALLOW_THREADS == FALSE

\* (mutant) a missing process is reported as NoSuchProcess
wait_open_failed_RaisesNSP(e) ==
    IF e = "ERROR_INVALID_PARAMETER"
    THEN [ret |-> "NULL", err |-> NoSuchProcess("OpenProcess -> ERROR_INVALID_PARAMETER")]
    ELSE [ret |-> "NULL", err |-> PyErr_SetFromOSErrnoWithSyscall(e, "OpenProcess")]

\* hProcess == NULL: "no such process" returns None, anything else raises
wait_open_failed(e) ==
    IF e = "ERROR_INVALID_PARAMETER"
    THEN [ret |-> "None", err |-> NoError]
    ELSE [ret |-> "NULL", err |-> PyErr_SetFromOSErrnoWithSyscall(e, "OpenProcess")]

\* OpenProcess(SYNCHRONIZE | PROCESS_QUERY_INFORMATION); on success the
\* interpreter lock is released for the wait (Py_BEGIN_ALLOW_THREADS)
wait_OpenProcess ==
    /\ fn = "psutil_proc_wait" /\ pc = "OpenProcess"
    /\ \/ /\ OpenProcessOk
          /\ pc' = "WaitForSingleObject"
          /\ gil' = Py_BEGIN_ALLOW_THREADS
          /\ UNCHANGED <<err, ret>>
       \/ /\ \E e \in OpenProcessErrors(pid) :
               /\ lastError' = e
               /\ Finish(wait_open_failed(e).ret, wait_open_failed(e).err)
          /\ calls' = calls \cup {"OpenProcess"}
          /\ UNCHANGED <<hnd, gil>>
    /\ UNCHANGED <<running, fn, pid, status, retVal, liveness, ntCalls, mem, walk>>
    /\ UNCHANGED <<usr, wsc, osx, misc>>

\* results WaitForSingleObject can give: signalled only once the process has
\* exited, timeout only while it has not
WaitResults ==
    (IF pid \in running THEN {"WAIT_TIMEOUT"} ELSE {"WAIT_OBJECT_0"})
        \cup {"WAIT_ABANDONED", "WAIT_FAILED"}

\* (mutant) an abandoned wait is folded into the timeout
wait_retVal_error_Conflated(r) ==
    CASE r = "WAIT_FAILED" ->
            PyErr_SetFromOSErrnoWithSyscall("ERROR_GEN_FAILURE", "WaitForSingleObject")
      [] r = "WAIT_TIMEOUT" ->
            SetError("TimeoutExpired", "", "WaitForSingleObject() returned WAIT_TIMEOUT")
      [] r = "WAIT_ABANDONED" ->
            SetError("TimeoutExpired", "", "WaitForSingleObject() returned WAIT_TIMEOUT")
      [] OTHER -> NoError

\* the exception raised for each return code of WaitForSingleObject
wait_retVal_error(r) ==
    CASE r = "WAIT_FAILED" ->
            PyErr_SetFromOSErrnoWithSyscall("ERROR_GEN_FAILURE", "WaitForSingleObject")
      [] r = "WAIT_TIMEOUT" ->
            SetError("TimeoutExpired", "", "WaitForSingleObject() returned WAIT_TIMEOUT")
      [] r = "WAIT_ABANDONED" ->
            SetError("TimeoutAbandoned", "", "WaitForSingleObject() returned WAIT_ABANDONED")
      [] OTHER -> NoError

\* WaitForSingleObject returns, the lock is taken back (Py_END_ALLOW_THREADS)
\* and the return code is handled
wait_WaitForSingleObject ==
    /\ fn = "psutil_proc_wait" /\ pc = "WaitForSingleObject"
    /\ gil = FALSE
    /\ otherThread = "idle"
    /\ gil' = TRUE
    /\ calls' = calls \cup {"WaitForSingleObject"}
    /\ \E r \in WaitResults :
        /\ retVal' = r
        /\ lastError' = IF r = "WAIT_FAILED" THEN "ERROR_GEN_FAILURE" ELSE lastError
        /\ IF r \in {"WAIT_FAILED", "WAIT_TIMEOUT", "WAIT_ABANDONED"}
           THEN /\ SetHandleTable(CloseHandle(HandleTable, hProcess))
                /\ Finish("NULL", wait_retVal_error(r))
           ELSE /\ pc' = "GetExitCodeProcess"
                /\ UNCHANGED <<err, ret, open, closeCnt, badClose>>
    /\ UNCHANGED <<running, fn, pid, hProcess, hToken, hThreadSnap, hThread,
                   nextH, status, liveness, ntCalls, mem, walk>>
    /\ UNCHANGED <<usr, wsc, osx, misc>>

wait_GetExitCodeProcess ==
    /\ fn = "psutil_proc_wait" /\ pc = "GetExitCodeProcess"
    /\ calls' = calls \cup {"GetExitCodeProcess"}
    /\ \/ /\ lastError' = "ERROR_GEN_FAILURE"
          /\ Finish("NULL", PyErr_SetFromOSErrnoWithSyscall(
                                "ERROR_GEN_FAILURE", "GetExitCodeProcess"))
       \/ /\ Finish("ExitCode", NoError)
          /\ UNCHANGED lastError
    /\ SetHandleTable(CloseHandle(HandleTable, hProcess))
    /\ UNCHANGED <<env, fn, pid, hProcess, hToken, hThreadSnap, hThread, nextH,
                   status, retVal, liveness, ntCalls, mem, walk>>
    /\ UNCHANGED <<usr, wsc, osx, misc>>

psutil_proc_wait ==
    \/ wait_entry
    \/ wait_OpenProcess
    \/ wait_WaitForSingleObject
    \/ wait_GetExitCodeProcess

\* ----------------------------------------------------- psutil_proc_times
times_handle_from_pid ==
    /\ fn = "psutil_proc_times" /\ pc = "entry"
    /\ psutil_handle_from_pid("GetProcessTimes")
    /\ UNCHANGED <<env, fn, pid, status, retVal, ntCalls, mem, walk>>
    /\ UNCHANGED <<usr, wsc, osx, misc>>

times_GetProcessTimes ==
    /\ fn = "psutil_proc_times" /\ pc = "GetProcessTimes"
    /\ calls' = calls \cup {"GetProcessTimes"}
    /\ \/ /\ retVal' = "TRUE"
          /\ Finish("(user, kernel, create)", NoError)
          /\ UNCHANGED lastError
       \/ /\ retVal' = "FALSE"
          /\ \E e \in {"ERROR_ACCESS_DENIED", "ERROR_GEN_FAILURE"} :
               /\ lastError' = e
               /\ IF e = "ERROR_ACCESS_DENIED"
                  THEN Finish("NULL", NoSuchProcess("GetProcessTimes -> ERROR_ACCESS_DENIED"))
                  ELSE Finish("NULL", PyErr_SetFromOSErrnoWithSyscall(e, ""))
    /\ SetHandleTable(CloseHandle(HandleTable, hProcess))
    /\ UNCHANGED <<env, fn, pid, hProcess, hToken, hThreadSnap, hThread, nextH,
                   status, liveness, ntCalls, mem, walk>>
    /\ UNCHANGED <<usr, wsc, osx, misc>>

psutil_proc_times == times_handle_from_pid \/ times_GetProcessTimes

\* ------------------------------------------------------- psutil_proc_exe
\* NTSTATUS values a native NT query can fail with besides length mismatch
NtFailures == {"STATUS_ACCESS_DENIED", "STATUS_UNSUCCESSFUL"}

NtStatuses == {"STATUS_SUCCESS", "STATUS_INFO_LENGTH_MISMATCH"} \cup NtFailures

\* required lengths the system may store in ImageName.MaximumLength on a
\* length mismatch (none stored: the field keeps the caller's value)
RequiredLengths(declared) == {declared, 2 * EXE_INITIAL_SIZE, 3 * EXE_INITIAL_SIZE}

\* (USHORT)bufferSize
USHORT(n) == n % USHORT_RANGE

exe_entry ==
    /\ fn = "psutil_proc_exe" /\ pc = "entry"
    /\ \/ /\ pid = 0
          /\ Finish("NULL", AccessDenied("automatically set for PID 0"))
          /\ UNCHANGED mem
       \/ /\ pid # 0                               \* MALLOC_ZERO failed
          /\ Finish("NULL", PyErr_NoMemory)
          /\ bufferSize' = EXE_INITIAL_SIZE
          /\ UNCHANGED <<buffer, MaximumLength, userToken, heapLive, maxAlloc>>
       \/ /\ pid # 0
          /\ bufferSize' = EXE_INITIAL_SIZE
          /\ buffer' = "live"
          /\ heapLive' = heapLive + 1
          /\ maxAlloc' = EXE_INITIAL_SIZE
          /\ MaximumLength' = USHORT(EXE_INITIAL_SIZE)
          /\ pc' = "NtQuerySystemInformation"
          /\ UNCHANGED <<err, ret, userToken>>
    /\ UNCHANGED <<env, fn, pid, hnd, nat, walk>>
    /\ UNCHANGED <<usr, wsc, osx, misc>>

\* the first NtQuerySystemInformation call and the choice of retry strategy
exe_NtQuerySystemInformation ==
    /\ fn = "psutil_proc_exe" /\ pc = "NtQuerySystemInformation"
    /\ calls' = calls \cup {"NtQuerySystemInformation"}
    /\ ntCalls' = ntCalls + 1
    /\ declaredSize' = MaximumLength
    /\ allocatedSize' = bufferSize
    /\ \E st \in NtStatuses :
        /\ status' = st
        /\ IF st = "STATUS_INFO_LENGTH_MISMATCH"
           THEN /\ \E len \in RequiredLengths(MaximumLength) : MaximumLength' = len
                /\ pc' = IF MaximumLength' <= bufferSize THEN "exe_double" ELSE "exe_sized"
           ELSE /\ UNCHANGED MaximumLength
                /\ pc' = "exe_result"
    /\ UNCHANGED <<env, fn, pid, err, ret, hnd, lastError, retVal, liveness,
                   bufferSize, buffer, userToken, heapLive, maxAlloc, walk>>
    /\ UNCHANGED <<more, usr, wsc, osx, snp, tog, thr, regions, passed, mismatches>>

\* one iteration of the doubling loop: double, reallocate, query again
exe_double ==
    /\ fn = "psutil_proc_exe" /\ pc = "exe_double"
    /\ bufferSize' = bufferSize * 2
    /\ \/ /\ buffer' = "NULL"                      \* FREE, then MALLOC_ZERO failed
          /\ heapLive' = heapLive - 1
          /\ Finish("NULL", PyErr_NoMemory)
          /\ UNCHANGED <<MaximumLength, maxAlloc, status, calls, ntCalls,
                         declaredSize, allocatedSize>>
       \/ /\ buffer' = "live"
          /\ heapLive' = heapLive
          /\ maxAlloc' = IF bufferSize' > maxAlloc THEN bufferSize' ELSE maxAlloc
          /\ calls' = calls \cup {"NtQuerySystemInformation"}
          /\ ntCalls' = ntCalls + 1
          /\ declaredSize' = USHORT(bufferSize')
          /\ allocatedSize' = bufferSize'
          /\ \E st \in NtStatuses :
               /\ status' = st
               /\ IF st = "STATUS_INFO_LENGTH_MISMATCH"
                  THEN \E len \in RequiredLengths(USHORT(bufferSize')) :
                            MaximumLength' = len
                  ELSE MaximumLength' = USHORT(bufferSize')
               /\ pc' = IF st = "STATUS_INFO_LENGTH_MISMATCH" /\ bufferSize' <= EXE_MAX_SIZE
                        THEN "exe_double" ELSE "exe_result"
          /\ UNCHANGED <<err, ret>>
    /\ UNCHANGED <<env, fn, pid, hnd, lastError, retVal, liveness, userToken, walk>>
    /\ UNCHANGED <<more, usr, wsc, osx, snp, tog, thr, regions, passed, mismatches>>

\* (mutant) the retry buffer is the doubled initial size
exe_sized_size_Doubled(reported, size) == size * 2

\* MALLOC_ZERO(processIdInfo.ImageName.MaximumLength)
exe_sized_size(reported, size) == reported

\* the retry with a buffer of the reported required length
exe_sized ==
    /\ fn = "psutil_proc_exe" /\ pc = "exe_sized"
    /\ \/ /\ buffer' = "NULL"                      \* FREE, then MALLOC_ZERO failed
          /\ heapLive' = heapLive - 1
          /\ Finish("NULL", PyErr_NoMemory)
          /\ UNCHANGED <<MaximumLength, maxAlloc, status, calls, ntCalls,
                         declaredSize, allocatedSize>>
       \/ /\ buffer' = "live"
          /\ heapLive' = heapLive
          /\ maxAlloc' = IF exe_sized_size(MaximumLength, bufferSize) > maxAlloc
                         THEN exe_sized_size(MaximumLength, bufferSize)
                         ELSE maxAlloc
          /\ calls' = calls \cup {"NtQuerySystemInformation"}
          /\ ntCalls' = ntCalls + 1
          /\ declaredSize' = MaximumLength
          /\ allocatedSize' = exe_sized_size(MaximumLength, bufferSize)
          /\ \E st \in NtStatuses :
               /\ status' = st
               /\ IF st = "STATUS_INFO_LENGTH_MISMATCH"
                  THEN \E len \in RequiredLengths(MaximumLength) : MaximumLength' = len
                  ELSE UNCHANGED MaximumLength
          /\ pc' = "exe_result"
          /\ UNCHANGED <<err, ret>>
    /\ UNCHANGED <<env, fn, pid, hnd, lastError, retVal, liveness, bufferSize,
                   userToken, walk>>
    /\ UNCHANGED <<more, usr, wsc, osx, snp, tog, thr, regions, passed, mismatches>>

\* (mutant) a failed liveness check (-1) is taken for an absent pid
exe_failure_error_NotOne(r, st) ==
    IF r # 1
    THEN NoSuchProcess("psutil_pid_is_running -> 0")
    ELSE psutil_SetFromNTStatusErr(st, "NtQuerySystemInformation")

\* the error raised for a failed final status, given the liveness result r
exe_failure_error(r, st) ==
    IF r = 0
    THEN NoSuchProcess("psutil_pid_is_running -> 0")
    ELSE psutil_SetFromNTStatusErr(st, "NtQuerySystemInformation")

\* the final status is examined: error after a liveness check, or the path
exe_result ==
    /\ fn = "psutil_proc_exe" /\ pc = "exe_result"
    /\ buffer' = "freed"
    /\ heapLive' = heapLive - 1
    /\ IF ~ NT_SUCCESS(status)
       THEN /\ calls' = calls \cup {"psutil_pid_is_running"}
            /\ \E r \in psutil_pid_is_running(pid) :
                 /\ liveness' = Append(liveness, r)
                 /\ Finish("NULL", exe_failure_error(r, status))
       ELSE /\ Finish("py_exe", NoError)
            /\ UNCHANGED <<calls, liveness>>
    /\ UNCHANGED <<env, fn, pid, hnd, lastError, status, retVal, ntCalls,
                   bufferSize, MaximumLength, userToken, maxAlloc, walk>>
    /\ UNCHANGED <<usr, wsc, osx, misc>>

psutil_proc_exe ==
    \/ exe_entry
    \/ exe_NtQuerySystemInformation
    \/ exe_double
    \/ exe_sized
    \/ exe_result

\* ------------- psutil_proc_memory_uss / psutil_GetProcWsetInformation
uss_handle_from_pid ==
    /\ fn = "psutil_proc_memory_uss" /\ pc = "entry"
    /\ psutil_handle_from_pid("wset_init")
    /\ UNCHANGED <<env, fn, pid, status, retVal, ntCalls, mem, walk>>
    /\ UNCHANGED <<usr, wsc, osx, misc>>

\* psutil_GetProcWsetInformation: the initial allocation
wset_init ==
    /\ fn = "psutil_proc_memory_uss" /\ pc = "wset_init"
    /\ bufferSize' = WSET_INITIAL_SIZE
    /\ \/ /\ Finish("NULL", PyErr_NoMemory)        \* MALLOC_ZERO failed
          /\ SetHandleTable(CloseHandle(HandleTable, hProcess))
          /\ UNCHANGED <<buffer, heapLive, maxAlloc>>
       \/ /\ buffer' = "live"
          /\ heapLive' = heapLive + 1
          /\ maxAlloc' = WSET_INITIAL_SIZE
          /\ pc' = "NtQueryVirtualMemory"
          /\ UNCHANGED <<err, ret, open, closeCnt, badClose>>
    /\ UNCHANGED <<env, fn, pid, hProcess, hToken, hThreadSnap, hThread, nextH,
                   nat, MaximumLength, userToken, walk>>
    /\ UNCHANGED <<usr, wsc, osx, misc>>

\* a working-set entry (MEMORY_WORKING_SET_BLOCK: Shared, ShareCount)
WsEntries == [Shared : BOOLEAN, ShareCount : 0 .. MaxShareCount]

\* working-set tables of at most MaxEntries entries
WsTables == UNION {[1 .. n -> WsEntries] : n \in 0 .. MaxEntries}

WsExample ==
    << [Shared |-> FALSE, ShareCount |-> 0],
       [Shared |-> TRUE, ShareCount |-> 1],
       [Shared |-> TRUE, ShareCount |-> 3] >>

\* the tables the working-set query returns in a full run of the query
WsSamples == {<< >>, WsExample}

\* (mutant) the ceiling is compared with the size before doubling
wset_too_large_OldSize(newSize) == newSize > 2 * WSET_MAX_SIZE

\* "Fail if we're resizing the buffer to something very large."
wset_too_large(newSize) == newSize > WSET_MAX_SIZE

\* (mutant) the buffer grows by the initial size
wset_next_size_Linear(size) == size + WSET_INITIAL_SIZE

\* bufferSize *= 2
wset_next_size(size) == size * 2

\* one NtQueryVirtualMemory call of the retry loop and what follows it
wset_NtQueryVirtualMemory ==
    /\ fn = "psutil_proc_memory_uss" /\ pc = "NtQueryVirtualMemory"
    /\ calls' = calls \cup {"NtQueryVirtualMemory"}
    /\ ntCalls' = ntCalls + 1
    /\ passed' = Append(passed, bufferSize)
    /\ \E st \in NtStatuses :
        /\ status' = st
        /\ mismatches' = IF st = "STATUS_INFO_LENGTH_MISMATCH"
                         THEN mismatches + 1 ELSE mismatches
        /\ CASE st = "STATUS_INFO_LENGTH_MISMATCH" ->
                  /\ bufferSize' = wset_next_size(bufferSize)
                  /\ IF wset_too_large(bufferSize')
                     THEN /\ buffer' = "freed"
                          /\ heapLive' = heapLive - 1
                          /\ Finish("NULL", SetError("RuntimeError", "",
                                        "NtQueryVirtualMemory bufsize is too large"))
                          /\ SetHandleTable(CloseHandle(HandleTable, hProcess))
                          /\ UNCHANGED maxAlloc
                     ELSE \/ /\ buffer' = "NULL"   \* MALLOC_ZERO failed
                             /\ heapLive' = heapLive - 1
                             /\ Finish("NULL", PyErr_NoMemory)
                             /\ SetHandleTable(CloseHandle(HandleTable, hProcess))
                             /\ UNCHANGED maxAlloc
                          \/ /\ buffer' = "live"
                             /\ heapLive' = heapLive
                             /\ maxAlloc' = IF bufferSize' > maxAlloc
                                            THEN bufferSize' ELSE maxAlloc
                             /\ UNCHANGED <<pc, err, ret, open, closeCnt, badClose>>
             [] st = "STATUS_SUCCESS" ->
                  \* *wsInfo = buffer; return 0; then memset(&wsCounters, 0)
                  /\ \E t \in WsSamples : wsInfo' = t
                  /\ i' = 0
                  /\ NumberOfPrivatePages' = 0
                  /\ pc' = "uss_count"
                  /\ UNCHANGED <<err, ret, open, closeCnt, badClose, bufferSize,
                                 buffer, heapLive, maxAlloc>>
             [] OTHER ->
                  /\ pc' = "wset_error"
                  /\ UNCHANGED <<err, ret, open, closeCnt, badClose, bufferSize,
                                 buffer, heapLive, maxAlloc>>
        /\ st # "STATUS_SUCCESS" => UNCHANGED wsc
    /\ UNCHANGED <<env, fn, pid, hProcess, hToken, hThreadSnap, hThread, nextH,
                   lastError, retVal, liveness, MaximumLength, userToken, walk>>
    /\ UNCHANGED <<more, usr, osx, snp, tog, thr, regions, declaredSize, allocatedSize>>

\* the query failed with something other than length mismatch
wset_error ==
    /\ fn = "psutil_proc_memory_uss" /\ pc = "wset_error"
    /\ IF status = "STATUS_ACCESS_DENIED"
       THEN /\ Finish("NULL", AccessDenied("NtQueryVirtualMemory -> STATUS_ACCESS_DENIED"))
            /\ UNCHANGED <<calls, liveness>>
       ELSE /\ calls' = calls \cup {"psutil_pid_is_running"}
            /\ \E r \in psutil_pid_is_running(pid) :
                 /\ liveness' = Append(liveness, r)
                 /\ IF r = 0
                    THEN Finish("NULL", NoSuchProcess("psutil_pid_is_running -> 0"))
                    ELSE Finish("NULL", psutil_SetFromNTStatusErr(status,
                            "NtQueryVirtualMemory(MemoryWorkingSetInformation)"))
    /\ buffer' = "freed"
    /\ heapLive' = heapLive - 1
    /\ SetHandleTable(CloseHandle(HandleTable, hProcess))
    /\ UNCHANGED <<env, fn, pid, hProcess, hToken, hThreadSnap, hThread, nextH,
                   lastError, status, retVal, ntCalls, bufferSize, MaximumLength,
                   userToken, maxAlloc, walk>>
    /\ UNCHANGED <<usr, wsc, osx, misc>>

psutil_GetProcWsetInformation == wset_init \/ wset_NtQueryVirtualMemory \/ wset_error

\* (mutant) only an entry whose share count is 0 is private
uss_is_private_ShareCountZero(e) == e.ShareCount = 0

\* "count shared pages that only one process is using as private"
uss_is_private(e) == ~ e.Shared \/ e.ShareCount <= 1

\* one iteration of the loop over wsInfo->WorkingSetInfo
uss_count ==
    /\ fn = "psutil_proc_memory_uss" /\ pc = "uss_count"
    /\ i < Len(wsInfo)
    /\ NumberOfPrivatePages' = IF uss_is_private(wsInfo[i + 1])
                               THEN NumberOfPrivatePages + 1
                               ELSE NumberOfPrivatePages
    /\ i' = i + 1
    /\ UNCHANGED <<env, fn, pc, pid, err, ret, hnd, nat, mem, walk, wsInfo, usr, osx, misc>>

\* the loop is over: HeapFree, CloseHandle, the count is returned
uss_return ==
    /\ fn = "psutil_proc_memory_uss" /\ pc = "uss_count"
    /\ ~ (i < Len(wsInfo))
    /\ buffer' = "freed"
    /\ heapLive' = heapLive - 1
    /\ SetHandleTable(CloseHandle(HandleTable, hProcess))
    /\ Finish("NumberOfPrivatePages", NoError)
    /\ UNCHANGED <<env, fn, pid, hProcess, hToken, hThreadSnap, hThread, nextH,
                   nat, bufferSize, MaximumLength, userToken, maxAlloc, walk,
                   usr, wsc, osx, misc>>

psutil_proc_memory_uss ==
    \/ uss_handle_from_pid
    \/ psutil_GetProcWsetInformation
    \/ uss_count
    \/ uss_return

\* --------------------------------------------------- psutil_proc_threads
\* (mutant) the error path forgets the thread handle
threads_error_SnapshotOnly(tbl, hT, hS) ==
    IF hS # NULL THEN CloseHandle(tbl, hS) ELSE tbl

\* the `error:` label: the list is released, hThread and hThreadSnap are
\* closed when they are not NULL
threads_error(tbl, hT, hS) ==
    LET t1 == IF hT # NULL THEN CloseHandle(tbl, hT) ELSE tbl
    IN  IF hS # NULL THEN CloseHandle(t1, hS) ELSE t1

threads_entry ==
    /\ fn = "psutil_proc_threads" /\ pc = "entry"
    /\ \/ /\ pid = 0
          /\ Finish("NULL", AccessDenied("forced for PID 0"))
          /\ py_retlist' = PyNull
          /\ SetHandleTable(threads_error(HandleTable, hThread, hThreadSnap))
       \/ /\ pid # 0
          /\ py_retlist' = PyList(<<>>)
          /\ pc' = "psutil_pid_is_running"
          /\ UNCHANGED <<err, ret, open, closeCnt, badClose>>
    /\ UNCHANGED <<env, fn, pid, hProcess, hToken, hThreadSnap, hThread, nextH,
                   nat, mem, te32, baseAddress>>
    /\ UNCHANGED <<usr, wsc, osx, misc>>

\* (mutant) a pid reported absent is taken for a running one
threads_pid_absent_Never(pid_return) == FALSE

\* `if (pid_return == 0)`: the liveness check reported the pid absent
threads_pid_absent(pid_return) == pid_return = 0

threads_pid_is_running ==
    /\ fn = "psutil_proc_threads" /\ pc = "psutil_pid_is_running"
    /\ calls' = calls \cup {"psutil_pid_is_running"}
    /\ \E r \in psutil_pid_is_running(pid) :
        /\ liveness' = Append(liveness, r)
        /\ CASE threads_pid_absent(r) ->
                  /\ Finish("NULL", NoSuchProcess("psutil_pid_is_running -> 0"))
                  /\ py_retlist' = PyNull
                  /\ SetHandleTable(threads_error(HandleTable, hThread, hThreadSnap))
             [] r = -1 ->
                  /\ Finish("NULL", PyErr_SetFromOSErrnoWithSyscall(
                                        "ERROR_GEN_FAILURE", "psutil_pid_is_running"))
                  /\ py_retlist' = PyNull
                  /\ SetHandleTable(threads_error(HandleTable, hThread, hThreadSnap))
             [] OTHER ->
                  /\ pc' = "CreateToolhelp32Snapshot"
                  /\ UNCHANGED <<err, ret, py_retlist, open, closeCnt, badClose>>
    /\ UNCHANGED <<env, fn, pid, hProcess, hToken, hThreadSnap, hThread, nextH,
                   lastError, status, retVal, ntCalls, mem, te32, baseAddress>>
    /\ UNCHANGED <<usr, wsc, osx, misc>>

threads_CreateToolhelp32Snapshot ==
    /\ fn = "psutil_proc_threads" /\ pc = "CreateToolhelp32Snapshot"
    /\ calls' = calls \cup {"CreateToolhelp32Snapshot"}
    /\ \/ /\ hThreadSnap' = INVALID_HANDLE_VALUE
          /\ lastError' = "ERROR_GEN_FAILURE"
          /\ Finish("NULL", PyErr_SetFromOSErrnoWithSyscall(
                                "ERROR_GEN_FAILURE", "CreateToolhelp32Snapshot"))
          /\ py_retlist' = PyNull
          /\ SetHandleTable(threads_error(HandleTable, hThread, hThreadSnap'))
          /\ UNCHANGED nextH
       \/ /\ hThreadSnap' = nextH
          /\ open' = open \cup {nextH}
          /\ nextH' = nextH + 1
          /\ pc' = "Thread32First"
          /\ UNCHANGED <<err, ret, py_retlist, closeCnt, badClose, lastError>>
    /\ UNCHANGED <<env, fn, pid, hProcess, hToken, hThread, status, retVal,
                   liveness, ntCalls, mem, te32, baseAddress>>
    /\ UNCHANGED <<usr, wsc, osx, misc>>

threads_Thread32First ==
    /\ fn = "psutil_proc_threads" /\ pc = "Thread32First"
    /\ calls' = calls \cup {"Thread32First"}
    /\ \/ /\ lastError' = "ERROR_NO_MORE_FILES"
          /\ Finish("NULL", PyErr_SetFromOSErrnoWithSyscall(
                                "ERROR_NO_MORE_FILES", "Thread32First"))
          /\ py_retlist' = PyNull
          /\ SetHandleTable(threads_error(HandleTable, hThread, hThreadSnap))
          /\ UNCHANGED te32
       \/ /\ te32' = 1
          /\ pc' = "walk"
          /\ UNCHANGED <<err, ret, py_retlist, open, closeCnt, badClose, lastError>>
    /\ UNCHANGED <<env, fn, pid, hProcess, hToken, hThreadSnap, hThread, nextH,
                   status, retVal, liveness, ntCalls, mem, baseAddress>>
    /\ UNCHANGED <<usr, wsc, osx, misc>>

\* Thread32Next at the end of an iteration: another entry, or the walk is
\* over, the snapshot is closed and the list returned
threads_Thread32Next(tbl) ==
    \/ /\ te32 < MaxThreads
       /\ te32' = te32 + 1
       /\ SetHandleTable(tbl)
       /\ UNCHANGED <<pc, err, ret>>
    \/ /\ SetHandleTable(CloseHandle(tbl, hThreadSnap))
       /\ Finish("py_retlist", NoError)
       /\ UNCHANGED te32

\* one iteration of the do-while over the thread snapshot
threads_walk ==
    /\ fn = "psutil_proc_threads" /\ pc = "walk"
    /\ \/ /\ threads_Thread32Next(HandleTable)     \* th32OwnerProcessID # pid
          /\ UNCHANGED <<hThread, nextH, py_retlist, lastError, calls>>
       \/ /\ hThread' = NULL                       \* OpenThread failed: continue
          /\ calls' = calls \cup {"OpenThread"}
          /\ threads_Thread32Next(HandleTable)
          /\ UNCHANGED <<nextH, py_retlist, lastError>>
       \/ /\ hThread' = nextH                      \* GetThreadTimes failed
          /\ nextH' = nextH + 1
          /\ calls' = calls \cup {"OpenThread", "GetThreadTimes"}
          /\ lastError' = "ERROR_GEN_FAILURE"
          /\ Finish("NULL", PyErr_SetFromOSErrnoWithSyscall(
                                "ERROR_GEN_FAILURE", "GetThreadTimes"))
          /\ py_retlist' = PyNull
          /\ SetHandleTable(threads_error(
                 [HandleTable EXCEPT !.open = @ \cup {nextH}], hThread', hThreadSnap))
          /\ UNCHANGED te32
       \/ /\ hThread' = nextH                      \* entry appended, thread closed
          /\ nextH' = nextH + 1
          /\ calls' = calls \cup {"OpenThread", "GetThreadTimes"}
          /\ py_retlist' = PyList(Append(py_retlist.items, te32))
          /\ threads_Thread32Next(
                 CloseHandle([HandleTable EXCEPT !.open = @ \cup {nextH}], hThread'))
          /\ UNCHANGED lastError
    /\ UNCHANGED <<env, fn, pid, hProcess, hToken, hThreadSnap, status, retVal,
                   liveness, ntCalls, mem, baseAddress>>
    /\ UNCHANGED <<usr, wsc, osx, misc>>

psutil_proc_threads ==
    \/ threads_entry
    \/ threads_pid_is_running
    \/ threads_CreateToolhelp32Snapshot
    \/ threads_Thread32First
    \/ threads_walk

\* ----------------------------------------------- psutil_proc_memory_maps
maps_handle_from_pid ==
    /\ fn = "psutil_proc_memory_maps" /\ pc = "entry"
    /\ psutil_handle_from_pid("VirtualQueryEx")
    /\ py_retlist' = IF pc' = "done" THEN PyNull ELSE PyList(<<>>)
    /\ baseAddress' = 0
    /\ UNCHANGED <<env, fn, pid, status, retVal, ntCalls, mem, te32>>
    /\ UNCHANGED <<usr, wsc, osx, misc>>

\* (mutant) every region gets a descriptor, named or not
maps_has_descriptor_Always(named) == TRUE

\* if (GetMappedFileNameW(...)): a descriptor is built for a named region
maps_has_descriptor(named) == named

\* (mutant) the walk pointer is not advanced
maps_next_base_Stuck(base, RegionSize) == base

\* baseAddress = (PCHAR)baseAddress + basicInfo.RegionSize
maps_next_base(base, RegionSize) == base + RegionSize

\* one iteration of the walk: VirtualQueryEx, then GetMappedFileNameW
maps_VirtualQueryEx ==
    /\ fn = "psutil_proc_memory_maps" /\ pc = "VirtualQueryEx"
    /\ calls' = calls \cup {"VirtualQueryEx"}
    /\ \/ /\ SetHandleTable(CloseHandle(HandleTable, hProcess))   \* query failed
          /\ Finish("py_retlist", NoError)
          /\ UNCHANGED <<py_retlist, baseAddress, regions>>
       \/ /\ baseAddress > MaxAddr                                \* break
          /\ SetHandleTable(CloseHandle(HandleTable, hProcess))
          /\ Finish("py_retlist", NoError)
          /\ UNCHANGED <<py_retlist, baseAddress, regions>>
       \/ /\ baseAddress <= MaxAddr
          /\ \E RegionSize \in 1 .. MaxRegionSize, named \in BOOLEAN :
               /\ regions' = Append(regions, [BaseAddress |-> baseAddress,
                                              RegionSize |-> RegionSize,
                                              named |-> named])
               /\ py_retlist' = IF maps_has_descriptor(named)
                                THEN PyList(Append(py_retlist.items,
                                                   <<baseAddress, RegionSize>>))
                                ELSE py_retlist
               /\ baseAddress' = maps_next_base(baseAddress, RegionSize)
          /\ UNCHANGED <<pc, err, ret, open, closeCnt, badClose>>
    /\ UNCHANGED <<env, fn, pid, hProcess, hToken, hThreadSnap, hThread, nextH,
                   lastError, status, retVal, liveness, ntCalls, mem, te32>>
    /\ UNCHANGED <<more, usr, wsc, osx, snp, tog, thr, passed, mismatches, declaredSize,
                   allocatedSize>>

psutil_proc_memory_maps == maps_handle_from_pid \/ maps_VirtualQueryEx

\* ------------------------------------------- _psutil_user_token_from_pid
\* lengths GetTokenInformation may report back through &bufferSize
TokenLengths == {TOKEN_INITIAL_SIZE, 2 * TOKEN_INITIAL_SIZE}

\* the `error:` label: hProcess and hToken are closed when not NULL
token_error(tbl, hP, hT) ==
    LET t1 == IF hP # NULL THEN CloseHandle(tbl, hP) ELSE tbl
    IN  IF hT # NULL THEN CloseHandle(t1, hT) ELSE t1

\* the function runs on its own or as the first call of psutil_proc_username
InToken == fn \in {"_psutil_user_token_from_pid", "psutil_proc_username"}

token_handle_from_pid ==
    /\ \/ fn = "_psutil_user_token_from_pid" /\ pc = "entry"
       \/ fn = "psutil_proc_username" /\ pc = "_psutil_user_token_from_pid"
    /\ psutil_handle_from_pid("OpenProcessToken")
    /\ bufferSize' = TOKEN_INITIAL_SIZE
    /\ UNCHANGED <<env, fn, pid, status, retVal, ntCalls, buffer, MaximumLength,
                   userToken, heapLive, maxAlloc, walk>>
    /\ UNCHANGED <<usr, wsc, osx, misc>>

token_OpenProcessToken ==
    /\ InToken /\ pc = "OpenProcessToken"
    /\ calls' = calls \cup {"OpenProcessToken"}
    /\ \/ /\ lastError' = "ERROR_ACCESS_DENIED"
          /\ Finish("NULL", PyErr_SetFromOSErrnoWithSyscall(
                                "ERROR_ACCESS_DENIED", "OpenProcessToken"))
          /\ SetHandleTable(token_error(HandleTable, hProcess, hToken))
          /\ UNCHANGED <<hToken, nextH>>
       \/ /\ hToken' = nextH
          /\ open' = open \cup {nextH}
          /\ nextH' = nextH + 1
          /\ pc' = "GetTokenInformation"
          /\ UNCHANGED <<err, ret, closeCnt, badClose, lastError>>
    /\ UNCHANGED <<env, fn, pid, hProcess, hThreadSnap, hThread, status, retVal,
                   liveness, ntCalls, mem, walk>>
    /\ UNCHANGED <<usr, wsc, osx, misc>>

\* one iteration of the while (1) loop: malloc, GetTokenInformation
token_GetTokenInformation ==
    /\ InToken /\ pc = "GetTokenInformation"
    /\ \/ /\ userToken' = "NULL"                   \* malloc failed
          /\ Finish("NULL", PyErr_NoMemory)
          /\ SetHandleTable(token_error(HandleTable, hProcess, hToken))
          /\ UNCHANGED <<calls, lastError, bufferSize, heapLive, maxAlloc>>
       \/ /\ calls' = calls \cup {"GetTokenInformation"}
          /\ maxAlloc' = IF bufferSize > maxAlloc THEN bufferSize ELSE maxAlloc
          /\ \/ /\ userToken' = "live"             \* success
                /\ heapLive' = heapLive + 1
                /\ SetHandleTable(CloseHandle(CloseHandle(HandleTable, hProcess), hToken))
                /\ IF fn = "psutil_proc_username"
                   THEN pc' = "LookupAccountSidW" /\ UNCHANGED <<err, ret>>
                   ELSE Finish("userToken", NoError)
                /\ UNCHANGED <<lastError, bufferSize>>
             \/ /\ lastError' = "ERROR_INSUFFICIENT_BUFFER"
                /\ \E len \in TokenLengths : bufferSize' = len
                /\ userToken' = "freed"
                /\ UNCHANGED <<pc, err, ret, open, closeCnt, badClose, heapLive>>
             \/ /\ lastError' = "ERROR_GEN_FAILURE"
                /\ userToken' = "live"             \* not freed on this path
                /\ heapLive' = heapLive + 1
                /\ Finish("NULL", PyErr_SetFromOSErrnoWithSyscall(
                                      "ERROR_GEN_FAILURE", "GetTokenInformation"))
                /\ SetHandleTable(token_error(HandleTable, hProcess, hToken))
                /\ UNCHANGED bufferSize
    /\ UNCHANGED <<env, fn, pid, hProcess, hToken, hThreadSnap, hThread, nextH,
                   status, retVal, liveness, ntCalls, buffer, MaximumLength, walk>>
    /\ UNCHANGED <<usr, wsc, osx, misc>>

_psutil_user_token_from_pid ==
    \/ token_handle_from_pid
    \/ token_OpenProcessToken
    \/ token_GetTokenInformation

\* --------------------------------------------------- psutil_proc_username
\* sizes LookupAccountSidW may report back through &nameSize, &domainNameSize
NameSizes == {NAME_INITIAL_SIZE, 2 * NAME_INITIAL_SIZE}

\* free(b) when b is not NULL: the pointer afterwards, the live buffers
\* released and the frees of an already freed buffer
AfterFree(b) == IF b = "NULL" THEN "NULL" ELSE "freed"

Released(b) == IF b = "live" THEN 1 ELSE 0

FreedAgain(b) == IF b = "freed" THEN 1 ELSE 0

\* the `error:` label: userName, domainName and userToken are freed when
\* not NULL; u and d are the pointers at the moment of the goto
username_error(u, d) ==
    /\ userName' = AfterFree(u)
    /\ domainName' = AfterFree(d)
    /\ userToken' = AfterFree(userToken)
    /\ heapLive' = heapLive + Released(u) + Released(d)   \* this iteration's mallocs
                             - Released(u) - Released(d) - Released(userToken)
    /\ badFree' = badFree + FreedAgain(u) + FreedAgain(d) + FreedAgain(userToken)

\* (mutant) every LookupAccountSidW failure is fatal
username_lookup_error_Fatal(e) ==
    PyErr_SetFromOSErrnoWithSyscall(e, "LookupAccountSidW")

\* the error raised for a LookupAccountSidW failure that is not a retry
username_lookup_error(e) ==
    IF e = "ERROR_NONE_MAPPED"
    THEN AccessDenied("LookupAccountSidW -> ERROR_NONE_MAPPED")
    ELSE PyErr_SetFromOSErrnoWithSyscall(e, "LookupAccountSidW")

username_entry ==
    /\ fn = "psutil_proc_username" /\ pc = "entry"
    /\ nameSize' = NAME_INITIAL_SIZE
    /\ domainNameSize' = NAME_INITIAL_SIZE
    /\ pc' = "_psutil_user_token_from_pid"
    /\ UNCHANGED <<env, fn, pid, err, ret, hnd, nat, mem, walk, userName,
                   domainName, badFree, wsc, osx, misc>>

\* one iteration of the while (1) loop: two mallocs, LookupAccountSidW
username_LookupAccountSidW ==
    /\ fn = "psutil_proc_username" /\ pc = "LookupAccountSidW"
    /\ \/ /\ username_error("NULL", domainName)      \* malloc userName failed
          /\ Finish("NULL", PyErr_NoMemory)
          /\ UNCHANGED <<lastError, calls, nameSize, domainNameSize, maxAlloc>>
       \/ /\ username_error("live", "NULL")          \* malloc domainName failed
          /\ Finish("NULL", PyErr_NoMemory)
          /\ maxAlloc' = IF nameSize * SIZEOF_WCHAR > maxAlloc
                         THEN nameSize * SIZEOF_WCHAR ELSE maxAlloc
          /\ UNCHANGED <<lastError, calls, nameSize, domainNameSize>>
       \/ /\ calls' = calls \cup {"LookupAccountSidW"}
          /\ maxAlloc' = IF nameSize * SIZEOF_WCHAR > maxAlloc
                              \/ domainNameSize * SIZEOF_WCHAR > maxAlloc
                         THEN IF nameSize > domainNameSize
                              THEN nameSize * SIZEOF_WCHAR
                              ELSE domainNameSize * SIZEOF_WCHAR
                         ELSE maxAlloc
          /\ \/ /\ username_error("live", "live")   \* success: all three freed
                /\ Finish("py_tuple", NoError)
                /\ UNCHANGED <<lastError, nameSize, domainNameSize>>
             \/ /\ lastError' = "ERROR_INSUFFICIENT_BUFFER"
                /\ \E n \in NameSizes, d \in NameSizes :
                     /\ nameSize' = n
                     /\ domainNameSize' = d
                /\ userName' = "freed"
                /\ domainName' = "freed"
                /\ UNCHANGED <<pc, err, ret, userToken, heapLive, badFree>>
             \/ /\ \E e \in {"ERROR_NONE_MAPPED", "ERROR_GEN_FAILURE"} :
                     /\ lastError' = e
                     /\ Finish("NULL", username_lookup_error(e))
                /\ username_error("live", "live")
                /\ UNCHANGED <<nameSize, domainNameSize>>
    /\ UNCHANGED <<env, fn, pid, hnd, status, retVal, liveness, ntCalls,
                   bufferSize, buffer, MaximumLength, walk, wsc, osx, misc>>

psutil_proc_username == username_entry \/ username_LookupAccountSidW

\* -------------------------------------- psutil_proc_suspend_or_resume
\* PyArg_ParseTuple: the pid and the suspend flag
suspend_entry ==
    /\ fn = "psutil_proc_suspend_or_resume" /\ pc = "entry"
    /\ suspend' \in BOOLEAN
    /\ pc' = "psutil_handle_from_pid"
    /\ UNCHANGED <<env, fn, pid, err, ret, hnd, nat, mem, walk>>
    /\ UNCHANGED <<more, usr, wsc, osx, snp, access, thr, hst>>

\* hProcess = psutil_handle_from_pid(pid, PROCESS_SUSPEND_RESUME)
suspend_handle_from_pid ==
    /\ fn = "psutil_proc_suspend_or_resume" /\ pc = "psutil_handle_from_pid"
    /\ access' = "PROCESS_SUSPEND_RESUME"
    /\ psutil_handle_from_pid("NtSuspendResume")
    /\ UNCHANGED <<env, fn, pid, status, retVal, ntCalls, mem, walk>>
    /\ UNCHANGED <<more, usr, wsc, osx, snp, suspend, thr, hst>>

\* (mutant) the flag is not looked at
suspend_primitive_AlwaysSuspend(flag) == "NtSuspendProcess"

\* if (PyObject_IsTrue(suspend)) NtSuspendProcess else NtResumeProcess
suspend_primitive(flag) ==
    IF flag THEN "NtSuspendProcess" ELSE "NtResumeProcess"

\* the primitive is invoked, the handle is closed, the status is reported
suspend_NtSuspendResume ==
    /\ fn = "psutil_proc_suspend_or_resume" /\ pc = "NtSuspendResume"
    /\ calls' = calls \cup {suspend_primitive(suspend)}
    /\ ntCalls' = ntCalls + 1
    /\ \E st \in {"STATUS_SUCCESS"} \cup NtFailures :
        /\ status' = st
        /\ IF NT_SUCCESS(st)
           THEN Finish("None", NoError)
           ELSE Finish("NULL", psutil_SetFromNTStatusErr(st, "NtSuspend|ResumeProcess"))
    /\ SetHandleTable(CloseHandle(HandleTable, hProcess))
    /\ UNCHANGED <<env, fn, pid, hProcess, hToken, hThreadSnap, hThread, nextH,
                   lastError, retVal, liveness, mem, walk>>
    /\ UNCHANGED <<usr, wsc, osx, misc>>

psutil_proc_suspend_or_resume ==
    \/ suspend_entry
    \/ suspend_handle_from_pid
    \/ suspend_NtSuspendResume

\* ------------------------------------------------------- psutil_ppid_map
\* the elements of a set of pids in ascending order
Sorted(S) ==
    [j \in 1 .. Cardinality(S) |->
        CHOOSE x \in S : Cardinality({y \in S : y < x}) = j - 1]

\* the PROCESSENTRY32 tables a snapshot of the processes S can hold: one
\* entry per process, each with some parent id
Snapshots(S) ==
    {[j \in 1 .. Cardinality(S) |->
         [th32ProcessID |-> Sorted(S)[j], th32ParentProcessID |-> par[j]]] :
       par \in [1 .. Cardinality(S) -> Pids]}

\* py_retdict = PyDict_New(); CreateToolhelp32Snapshot(TH32CS_SNAPPROCESS, 0)
\* lists the system idle process (pid 0) and the processes running now
ppid_CreateToolhelp32Snapshot ==
    /\ fn = "psutil_ppid_map" /\ pc = "entry"
    /\ calls' = calls \cup {"CreateToolhelp32Snapshot"}
    /\ \/ /\ handle' = INVALID_HANDLE_VALUE
          /\ lastError' = "ERROR_GEN_FAILURE"
          /\ py_retdict' = PyNull
          /\ Finish("NULL", SetError("WindowsError", "ERROR_GEN_FAILURE", ""))
          /\ UNCHANGED <<open, nextH, snapshot, snapCnt>>
       \/ /\ handle' = nextH
          /\ open' = open \cup {nextH}
          /\ nextH' = nextH + 1
          /\ snapshot' \in Snapshots({0} \cup running)
          /\ snapCnt' = snapCnt + 1
          /\ py_retdict' = PyDict(<< >>)
          /\ pc' = "Process32First"
          /\ UNCHANGED <<err, ret, lastError>>
    /\ UNCHANGED <<env, fn, pid, hProcess, hToken, hThreadSnap, hThread, closeCnt,
                   badClose, status, retVal, liveness, ntCalls, mem, walk>>
    /\ UNCHANGED <<more, usr, wsc, osx, pe, tog, thr, hst>>

\* if (Process32First(handle, &pe)): the first entry, or nothing to walk
ppid_Process32First ==
    /\ fn = "psutil_ppid_map" /\ pc = "Process32First"
    /\ calls' = calls \cup {"Process32First"}
    /\ \/ /\ Len(snapshot) > 0
          /\ pe' = 1
          /\ pc' = "ppid_walk"
          /\ UNCHANGED <<err, ret, open, closeCnt, badClose>>
       \/ /\ SetHandleTable(CloseHandle(HandleTable, handle))
          /\ Finish("py_retdict", NoError)
          /\ UNCHANGED pe
    /\ UNCHANGED <<env, fn, pid, hProcess, hToken, hThreadSnap, hThread, nextH,
                   lastError, status, retVal, liveness, ntCalls, mem, walk>>
    /\ UNCHANGED <<more, usr, wsc, osx, handle, snapshot, py_retdict, snapCnt, tog, thr, hst>>

\* (mutant) the process id is stored as its own parent
ppid_item_SelfParent(e) == <<e.th32ProcessID, e.th32ProcessID>>

\* the pair stored for a snapshot entry
ppid_item(e) == <<e.th32ProcessID, e.th32ParentProcessID>>

\* one turn of the do-while: the entry is stored, Process32Next moves on or
\* ends the walk, after which the snapshot is closed and the dict returned
ppid_walk ==
    /\ fn = "psutil_ppid_map" /\ pc = "ppid_walk"
    /\ py_retdict' = PyDict(PyDict_SetItem(py_retdict.items,
                                           ppid_item(snapshot[pe])[1],
                                           ppid_item(snapshot[pe])[2]))
    /\ calls' = calls \cup {"Process32Next"}
    /\ \/ /\ pe < Len(snapshot)
          /\ pe' = pe + 1
          /\ UNCHANGED <<pc, err, ret, open, closeCnt, badClose>>
       \/ /\ SetHandleTable(CloseHandle(HandleTable, handle))
          /\ Finish("py_retdict", NoError)
          /\ UNCHANGED pe
    /\ UNCHANGED <<env, fn, pid, hProcess, hToken, hThreadSnap, hThread, nextH,
                   lastError, status, retVal, liveness, ntCalls, mem, walk>>
    /\ UNCHANGED <<more, usr, wsc, osx, handle, snapshot, snapCnt, tog, thr, hst>>

psutil_ppid_map ==
    \/ ppid_CreateToolhelp32Snapshot
    \/ ppid_Process32First
    \/ ppid_walk

\* ------------------------------------------ other interpreter threads
\* while the lock is released another thread takes it and starts a query
OtherQueryStart ==
    /\ gil = FALSE /\ otherThread = "idle"
    /\ otherThread' = "running"
    /\ UNCHANGED <<env, fn, pc, pid, err, ret, hnd, nat, mem, walk>>
    /\ UNCHANGED <<more, usr, wsc, osx, snp, tog, otherDone, hst>>

\* that query completes and the thread gives the lock back
OtherQueryDone ==
    /\ otherThread = "running"
    /\ otherThread' = "idle"
    /\ otherDone' = TRUE
    /\ UNCHANGED <<env, fn, pc, pid, err, ret, hnd, nat, mem, walk>>
    /\ UNCHANGED <<more, usr, wsc, osx, snp, tog, hst>>

\* ------------------------------------------------ psutil_proc_is_suspended
\* the states and wait reasons a thread of the process record can be in
ThreadStates == {"Waiting", "Running"}
WaitReasons == {"Suspended", "Executive"}

ThreadEntries == [ThreadState : ThreadStates, WaitReason : WaitReasons]

\* sequences over S of length at most n
SeqUpTo(S, n) == UNION {[1 .. k -> S] : k \in 0 .. n}

\* psutil_get_proc_info(pid, &process, &buffer): 1 with the process record
\* inside a buffer the caller has to free, or 0 with an exception set and
\* no buffer
psutil_get_proc_info(p) ==
    IF p \in running
    THEN {[ok |-> 1, e |-> NoError, Threads |-> ts] :
              ts \in SeqUpTo(ThreadEntries, MaxThreads)}
         \cup {[ok |-> 0, e |-> SetError("MemoryError", "", "malloc"),
                Threads |-> <<>>]}
    ELSE {[ok |-> 0,
           e |-> NoSuchProcess("NtQuerySystemInformation (no PID found)"),
           Threads |-> <<>>]}

\* (mutant) a thread that waits counts as suspended whatever it waits for
suspended_thread_WaitingOnly(t) == t.ThreadState = "Waiting"

\* the thread passes the test of the loop: not
\* `ThreadState != Waiting || WaitReason != Suspended`
suspended_thread(t) ==
    ~ (t.ThreadState # "Waiting" \/ t.WaitReason # "Suspended")

is_suspended_get_proc_info ==
    /\ fn = "psutil_proc_is_suspended" /\ pc = "entry"
    /\ calls' = calls \cup {"psutil_get_proc_info"}
    /\ \E r \in psutil_get_proc_info(pid) :
        IF r.ok = 0
        THEN /\ Finish("NULL", r.e)
             /\ UNCHANGED <<buffer, heapLive, Threads, i>>
        ELSE /\ buffer' = "live"
             /\ heapLive' = heapLive + 1
             /\ Threads' = r.Threads
             /\ i' = 0
             /\ pc' = "for"
             /\ UNCHANGED <<err, ret>>
    /\ UNCHANGED <<env, fn, pid, hnd, lastError, status, retVal, liveness,
                   ntCalls, bufferSize, MaximumLength, userToken, maxAlloc, walk>>
    /\ UNCHANGED <<usr, wsInfo, NumberOfPrivatePages, osx, snp, tog, thr, hst,
                   pl, sysctl_errno>>

\* one pass of `for (i = 0; i < process->NumberOfThreads; i++)`, or the
\* statements after the loop
is_suspended_for ==
    /\ fn = "psutil_proc_is_suspended" /\ pc = "for"
    /\ IF i < Len(Threads)
       THEN IF suspended_thread(Threads[i + 1])
            THEN /\ i' = i + 1
                 /\ UNCHANGED <<pc, err, ret, buffer, heapLive, badFree>>
            ELSE /\ buffer' = AfterFree(buffer)
                 /\ heapLive' = heapLive - Released(buffer)
                 /\ badFree' = badFree + FreedAgain(buffer)
                 /\ Finish("False", NoError)
                 /\ UNCHANGED i
       ELSE /\ buffer' = AfterFree(buffer)
            /\ heapLive' = heapLive - Released(buffer)
            /\ badFree' = badFree + FreedAgain(buffer)
            /\ Finish("True", NoError)
            /\ UNCHANGED i
    /\ UNCHANGED <<env, fn, pid, hnd, nat, bufferSize, MaximumLength, userToken,
                   maxAlloc, walk>>
    /\ UNCHANGED <<userName, domainName, nameSize, domainNameSize, wsInfo,
                   NumberOfPrivatePages, osx, snp, tog, thr, hst, more>>

psutil_proc_is_suspended == is_suspended_get_proc_info \/ is_suspended_for

\* a step of the query in flight
QueryStep ==
    \/ psutil_proc_is_suspended
    \/ psutil_proc_kill
    \/ psutil_proc_wait
    \/ psutil_proc_times
    \/ psutil_proc_exe
    \/ psutil_proc_memory_uss
    \/ psutil_proc_threads
    \/ psutil_proc_memory_maps
    \/ _psutil_user_token_from_pid
    \/ psutil_proc_username
    \/ psutil_proc_suspend_or_resume
    \/ psutil_ppid_map

Next ==
    \/ ProcessExit
    \/ ProcessStart
    \/ Call
    \/ Return
    \/ psutil_proc_kill
    \/ psutil_proc_wait
    \/ psutil_proc_times
    \/ psutil_proc_exe
    \/ psutil_proc_memory_uss
    \/ psutil_proc_threads
    \/ psutil_proc_memory_maps
    \/ _psutil_user_token_from_pid
    \/ psutil_proc_username
    \/ psutil_proc_suspend_or_resume
    \/ psutil_ppid_map
    \/ psutil_proc_is_suspended
    \/ OtherQueryStart
    \/ OtherQueryDone

Spec == Init /\ [][Next]_vars

\* the thread running the query is scheduled: it keeps taking steps while it
\* has one to take
FairSpec == Spec /\ WF_vars(QueryStep)

\* ------------------------------------- the counting loop on its own
\* psutil_proc_memory_uss(1) right after psutil_GetProcWsetInformation has
\* returned 0, for every working-set table within the bounds
UssInit ==
    /\ running = {1}
    /\ gil = TRUE
    /\ fn = "psutil_proc_memory_uss" /\ pc = "uss_count" /\ pid = 1
    /\ err = NoError /\ ret = "pending"
    /\ hProcess = 1 /\ hToken = NULL /\ hThreadSnap = NULL /\ hThread = NULL
    /\ open = {1} /\ nextH = 2
    /\ closeCnt = [h \in 1 .. MaxHandles |-> 0]
    /\ badClose = 0
    /\ lastError = "ERROR_SUCCESS" /\ status = "STATUS_SUCCESS" /\ retVal = "unset"
    /\ calls = {"OpenProcess", "NtQueryVirtualMemory"}
    /\ liveness = <<>> /\ ntCalls = 1
    /\ bufferSize = WSET_INITIAL_SIZE /\ buffer = "live" /\ MaximumLength = 0
    /\ userToken = "NULL" /\ heapLive = 1 /\ maxAlloc = WSET_INITIAL_SIZE
    /\ te32 = 0 /\ py_retlist = PyNull /\ baseAddress = 0
    /\ userName = "NULL" /\ domainName = "NULL"
    /\ nameSize = 0 /\ domainNameSize = 0 /\ badFree = 0
    /\ wsInfo \in WsTables /\ i = 0 /\ NumberOfPrivatePages = 0
    /\ procargs = "NULL" /\ procenv = "NULL"
    /\ procargsBytes = <<>> /\ procenvBytes = <<>>
    /\ argmax = 0 /\ nargs = 0 /\ arg_ptr = 0 /\ curr_arg = 0 /\ env_start = 0
    /\ py_ret = <<>> /\ oob = FALSE /\ pass = 0 /\ firstResult = <<>>
    /\ handle = NULL /\ snapshot = <<>> /\ pe = 0 /\ py_retdict = PyNull
    /\ snapCnt = 0 /\ suspend = FALSE /\ access = "unset"
    /\ otherThread = "idle" /\ otherDone = FALSE
    /\ regions = <<>> /\ passed = <<WSET_INITIAL_SIZE>> /\ mismatches = 0
    /\ declaredSize = 0 /\ allocatedSize = 0
    /\ Threads = <<>>
    /\ lim = 0 /\ listSize = 0 /\ size2 = 0 /\ ptr = "NULL"
    /\ procList = "NULL" /\ procCount = 0 /\ asked = 0 /\ fills = <<>>
    /\ sysctl_errno = "unset"

UssNext == uss_count \/ uss_return

UssSpec == UssInit /\ [][UssNext]_vars

\* ================================== macOS backend (arch/osx/process_info.c)
\* Pointers into procargs are byte offsets from procargs; the byte at offset
\* p of a buffer m is m[p + 1].  procargsBytes holds the argmax bytes sysctl
\* declared: the int argc, then the executable path, NUL padding, the
\* arguments and the environment, each field NUL terminated.
OsxFunctions == {"psutil_proc_cmdline", "psutil_proc_environ"}

Bytes == {NUL, 1, 2}

\* the sizeof(int) bytes of an int in memory, and the int memcpy reads back
IntBytes(n) ==
    <<n % 256, (n \div 256) % 256, (n \div 65536) % 256, (n \div 16777216) % 256>>

IntOf(m) == m[1] + 256 * m[2] + 65536 * m[3] + 16777216 * m[4]

Bodies == UNION {[1 .. n -> Bytes] : n \in 0 .. MaxBody}

\* the buffers sysctl(KERN_PROCARGS2) may fill in
ProcargsBuffers == {IntBytes(c) \o b : c \in 0 .. MaxArgc, b \in Bodies}

\* sysctl(KERN_ARGMAX): the size of the allocation
KernArgmax == SIZEOF_INT + MaxBody

\* the two bytes that follow the declared end of a buffer: whatever the heap
\* holds there
PastEnd == [1 .. 2 -> Bytes]

ZeroPastEnd == <<NUL, NUL>>

\* calloc(1, n)
Zeros(n) == [k \in 1 .. n |-> NUL]

\* psutil_pid_exists(p)
psutil_pid_exists(p) == IF p \in running THEN 1 ELSE 0

\* strlen(m + p)
RECURSIVE strlen(_, _)
strlen(m, p) == IF m[p + 1] = NUL THEN 0 ELSE 1 + strlen(m, p + 1)

\* memchr(m + p, '\0', n): the offset found, or NOT_FOUND for NULL
RECURSIVE memchr(_, _, _)
memchr(m, p, n) ==
    IF n = 0 THEN NOT_FOUND
    ELSE IF m[p + 1] = NUL THEN p ELSE memchr(m, p + 1, n - 1)

\* memcpy(dst + off, m + p, n)
memcpy(dst, off, m, p, n) ==
    [k \in 1 .. Len(dst) |->
        IF k > off /\ k <= off + n THEN m[p + (k - off)] ELSE dst[k]]

\* the lengths strlen(m + p) can return: the NUL inside the declared length,
\* or the first NUL the heap holds past a path that has none
strlen_outcomes(m, p, end) ==
    IF memchr(m, p, end - p) # NOT_FOUND
    THEN {strlen(m, p)}
    ELSE {(end - p) + k : k \in 0 .. MaxOverrun}

\* "skip ahead to the first argument"
RECURSIVE skip_padding(_, _, _)
skip_padding(m, p, end) ==
    IF p < end /\ m[p + 1] = NUL THEN skip_padding(m, p + 1, end) ELSE p

\* PyUnicode_DecodeFSDefault(m + curr): the bytes up to the first NUL
PyUnicode_DecodeFSDefault(m, curr) == SubSeq(m, curr + 1, curr + strlen(m, curr))

\* (mutant) the walk goes on until the buffer end whatever argc says
cmdline_continue_NoCount(p, end, n) == p < end

\* while (arg_ptr < arg_end && nargs > 0)
cmdline_continue(p, end, n) == p < end /\ n > 0

\* "iterate through arguments": the locals, the list and the buffer when the
\* loop is left
RECURSIVE cmdline_loop(_, _, _, _, _, _)
cmdline_loop(m, p, curr, n, list, end) ==
    IF cmdline_continue(p, end, n)
    THEN IF m[p + 1] = NUL
         THEN cmdline_loop(m, p + 1, p + 1, n - 1,
                           Append(list, PyUnicode_DecodeFSDefault(m, curr)), end)
         ELSE cmdline_loop(m, p + 1, curr, n, list, end)
    ELSE [mem |-> m, arg_ptr |-> p, curr_arg |-> curr, nargs |-> n, list |-> list]

\* (mutant) a tokenizer that overwrites the terminators it walks over
cmdline_args_InPlace(m, p, n, list, end) ==
    LET r == cmdline_loop(m, p, p, n, list, end)
    IN  [r EXCEPT !.mem = [k \in 1 .. Len(m) |->
                              IF k > p /\ k <= r.arg_ptr /\ m[k] = NUL
                              THEN 1 ELSE m[k]]]

\* curr_arg = arg_ptr; then the loop
cmdline_args(m, p, n, list, end) == cmdline_loop(m, p, p, n, list, end)

\* (mutant) one argument field too few is walked
environ_continue_OneLess(p, end, n) == p < end /\ n > 1

\* while (arg_ptr < arg_end && nargs > 0)
environ_continue(p, end, n) == p < end /\ n > 0

\* "iterate through arguments" of psutil_proc_environ
RECURSIVE environ_args(_, _, _, _)
environ_args(m, p, n, end) ==
    IF environ_continue(p, end, n)
    THEN environ_args(m, p + 1, IF m[p + 1] = NUL THEN n - 1 ELSE n, end)
    ELSE [arg_ptr |-> p, nargs |-> n]

\* the copying loop of psutil_proc_environ over the memory m (the buffer and
\* what follows it): *arg_ptr is read before arg_ptr < arg_end is tested, and
\* memchr scans arg_end - arg_ptr bytes from arg_ptr + 1
RECURSIVE environ_loop(_, _, _, _, _, _)
environ_loop(m, p, dst, start, end, o) ==
    IF m[p + 1] # NUL /\ p < end
    THEN LET s == memchr(m, p + 1, end - p)
         IN  IF s = NOT_FOUND
             THEN [arg_ptr |-> p, procenv |-> dst, oob |-> TRUE]
             ELSE environ_loop(m, s + 1, memcpy(dst, p - start, m, p, s - p),
                               start, end, o \/ s >= end)
    ELSE [arg_ptr |-> p, procenv |-> dst, oob |-> o \/ p >= end]

\* everything the macOS decoders leave alone
winx == <<gil, hnd, lastError, status, retVal, liveness, ntCalls, bufferSize,
          buffer, MaximumLength, userToken, te32, baseAddress, usr, wsc,
          snp, tog, thr, hst, sus>>
win == <<winx, pl, sysctl_errno>>

\* the helpers of the same file that are called from C
OsxHelpers == {"psutil_get_proc_list", "psutil_is_zombie"}

\* one of the two decoders, or one of the helpers, is invoked
OsxCall ==
    /\ pc = "idle"
    /\ \E f \in OsxFunctions \cup OsxHelpers, p \in Pids :
        /\ f = "psutil_get_proc_list" => p = 0      \* it takes no pid
        /\ fn' = f
        /\ pid' = p
    /\ pc' = "entry"
    /\ UNCHANGED <<running, win, err, ret, calls, heapLive, maxAlloc, py_retlist, osx, misc>>

\* the `error:` label while procenv is NULL: the list is released and
\* procargs (pa) is freed when not NULL
osx_error(e, pa) ==
    /\ py_retlist' = PyNull
    /\ procargs' = AfterFree(pa)
    /\ heapLive' = heapLive - Released(pa)
    /\ Finish("NULL", e)

cmdline_entry ==
    /\ fn = "psutil_proc_cmdline" /\ pc = "entry"
    /\ py_retlist' = PyList(<< >>)
    /\ IF pid = 0
       THEN Finish("py_retlist", NoError)
       ELSE pc' = "sysctl_argmax" /\ UNCHANGED <<err, ret>>
    /\ UNCHANGED <<running, fn, pid, win, calls, heapLive, maxAlloc, osx, misc>>

environ_entry ==
    /\ fn = "psutil_proc_environ" /\ pc = "entry"
    /\ IF pid = 0
       THEN Finish("py_empty", NoError)
       ELSE pc' = "sysctl_argmax" /\ UNCHANGED <<err, ret>>
    /\ UNCHANGED <<running, fn, pid, win, calls, heapLive, maxAlloc, py_retlist, osx, misc>>

\* argmax = psutil_sysctl_argmax(); procargs = malloc(argmax)
osx_sysctl_argmax ==
    /\ fn \in OsxFunctions /\ pc = "sysctl_argmax"
    /\ calls' = calls \cup {"sysctl(KERN_ARGMAX)"}
    /\ \/ /\ argmax' = 0                           \* sysctl failed
          /\ osx_error(PyErr_SetFromOSErrnoWithSyscall("EINVAL", "sysctl(KERN_ARGMAX)"),
                       procargs)
          /\ UNCHANGED maxAlloc
       \/ /\ argmax' = KernArgmax                  \* malloc failed
          /\ osx_error(PyErr_NoMemory, procargs)
          /\ UNCHANGED maxAlloc
       \/ /\ argmax' = KernArgmax
          /\ procargs' = "live"
          /\ heapLive' = heapLive + 1
          /\ maxAlloc' = KernArgmax
          /\ pc' = "sysctl_procargs"
          /\ UNCHANGED <<err, ret, py_retlist>>
    /\ UNCHANGED <<running, fn, pid, win, procenv, procargsBytes, procenvBytes,
                   nargs, arg_ptr, curr_arg, env_start, py_ret, oob, pass,
                   firstResult>>

\* errno once psutil_pid_exists(p) has returned, e being its value before
\* the call: the check asks the system about the pid with a call of its
\* own, which stores its code in errno when it fails (no such process, or
\* a process the caller may not signal) and leaves errno alone otherwise
errno_after_pid_exists(p, e) ==
    {e} \cup (IF p \in running THEN {"EPERM"} ELSE {"ESRCH"})

\* the error psutil_sysctl_procargs raises when sysctl(KERN_PROCARGS2) fails;
\* errno is read after psutil_pid_exists has returned
psutil_sysctl_procargs_error(exists, errno) ==
    IF exists = 0
    THEN NoSuchProcess("psutil_pid_exists -> 0")
    ELSE IF errno = "EINVAL"
         THEN NoSuchProcess("sysctl(KERN_PROCARGS2) -> EINVAL")
         ELSE IF errno = "EIO"
              THEN AccessDenied("sysctl(KERN_PROCARGS2) -> EIO")
              ELSE PyErr_SetFromOSErrnoWithSyscall(errno, "sysctl(KERN_PROCARGS2)")

\* psutil_sysctl_procargs(pid, procargs, &argmax)
osx_sysctl_procargs ==
    /\ fn \in OsxFunctions /\ pc = "sysctl_procargs"
    /\ calls' = calls \cup {"sysctl(KERN_PROCARGS2)"}
    /\ \/ /\ pid \in running
          /\ \E m \in ProcargsBuffers :
               /\ procargsBytes' = m
               /\ argmax' = Len(m)
          /\ pc' = "decode"
          /\ UNCHANGED <<err, ret, procargs, heapLive, py_retlist, sysctl_errno>>
       \/ /\ \E e \in {"EINVAL", "EIO", "ENOMEM"} :
               /\ sysctl_errno' = e
               /\ \E now \in errno_after_pid_exists(pid, e) :
                    osx_error(psutil_sysctl_procargs_error(psutil_pid_exists(pid),
                                                           now),
                              procargs)
          /\ UNCHANGED <<procargsBytes, argmax>>
    /\ UNCHANGED <<running, fn, pid, winx, pl, maxAlloc, procenv, procenvBytes,
                   nargs, arg_ptr, curr_arg, env_start, py_ret, oob, pass,
                   firstResult>>

\* nargs is read, the executable path is stepped over with strlen
cmdline_skip_exe ==
    /\ fn = "psutil_proc_cmdline" /\ pc = "decode"
    /\ nargs' = IntOf(procargsBytes)
    /\ \E len \in strlen_outcomes(procargsBytes, SIZEOF_INT, argmax) :
        /\ arg_ptr' = SIZEOF_INT + len + 1
        /\ oob' = (oob \/ SIZEOF_INT + len >= argmax)
    /\ IF arg_ptr' = argmax
       THEN /\ procargs' = "freed"
            /\ heapLive' = heapLive - 1
            /\ pass' = pass + 1
            /\ Finish("py_retlist", NoError)
       ELSE /\ pc' = "cmdline_walk"
            /\ UNCHANGED <<err, ret, procargs, heapLive, pass>>
    /\ UNCHANGED <<running, fn, pid, win, calls, maxAlloc, py_retlist, procenv,
                   procargsBytes, procenvBytes, argmax, curr_arg, env_start,
                   py_ret, firstResult>>

\* the padding is skipped, the arguments are collected, the list is returned
cmdline_walk ==
    /\ fn = "psutil_proc_cmdline" /\ pc = "cmdline_walk"
    /\ LET first == skip_padding(procargsBytes, arg_ptr, argmax)
           r == cmdline_args(procargsBytes, first, nargs, py_retlist.items, argmax)
       IN  /\ procargsBytes' = r.mem
           /\ arg_ptr' = r.arg_ptr
           /\ curr_arg' = r.curr_arg
           /\ nargs' = r.nargs
           /\ py_retlist' = PyList(r.list)
    /\ procargs' = "freed"
    /\ heapLive' = heapLive - 1
    /\ pass' = pass + 1
    /\ Finish("py_retlist", NoError)
    /\ UNCHANGED <<running, fn, pid, win, calls, maxAlloc, procenv, procenvBytes,
                   argmax, env_start, py_ret, oob, firstResult>>

\* the same bytes and declared length are decoded a second time
cmdline_decode_again ==
    /\ fn = "psutil_proc_cmdline" /\ pc = "done"
    /\ ret = "py_retlist" /\ pass = 1
    /\ firstResult' = py_retlist.items
    /\ py_retlist' = PyList(<< >>)
    /\ procargs' = "live"
    /\ heapLive' = heapLive + 1
    /\ ret' = "pending"
    /\ pc' = "decode"
    /\ UNCHANGED <<running, fn, pid, win, err, calls, maxAlloc, procenv,
                   procargsBytes, procenvBytes, argmax, nargs, arg_ptr, curr_arg,
                   env_start, py_ret, oob, pass>>

psutil_proc_cmdline ==
    \/ cmdline_entry
    \/ cmdline_skip_exe
    \/ cmdline_walk
    \/ cmdline_decode_again

\* nargs is read, the executable path is stepped over with memchr
environ_skip_exe ==
    /\ fn = "psutil_proc_environ" /\ pc = "decode"
    /\ nargs' = IntOf(procargsBytes)
    /\ arg_ptr' = memchr(procargsBytes, SIZEOF_INT, argmax - SIZEOF_INT)
    /\ IF arg_ptr' = NOT_FOUND \/ arg_ptr' = argmax
       THEN /\ procargs' = "freed"                 \* goto empty
            /\ heapLive' = heapLive - 1
            /\ Finish("py_empty", NoError)
       ELSE /\ pc' = "environ_skip_args"
            /\ UNCHANGED <<err, ret, procargs, heapLive>>
    /\ UNCHANGED <<running, fn, pid, win, calls, maxAlloc, py_retlist, procenv,
                   procargsBytes, procenvBytes, argmax, curr_arg, env_start,
                   py_ret, oob, pass, firstResult>>

\* the padding and nargs arguments are walked over, procenv is allocated
environ_skip_args ==
    /\ fn = "psutil_proc_environ" /\ pc = "environ_skip_args"
    /\ LET first == skip_padding(procargsBytes, arg_ptr, argmax)
           r == environ_args(procargsBytes, first, nargs, argmax)
       IN  /\ arg_ptr' = r.arg_ptr
           /\ nargs' = r.nargs
           /\ env_start' = r.arg_ptr
    /\ \/ /\ osx_error(PyErr_NoMemory, procargs)   \* calloc failed
          /\ UNCHANGED <<procenv, procenvBytes, maxAlloc>>
       \/ /\ procenv' = "live"
          /\ procenvBytes' = Zeros(argmax - arg_ptr')
          /\ heapLive' = heapLive + 1
          /\ maxAlloc' = IF argmax - arg_ptr' > maxAlloc
                         THEN argmax - arg_ptr' ELSE maxAlloc
          /\ pc' = "environ_copy"
          /\ UNCHANGED <<err, ret, procargs, py_retlist>>
    /\ UNCHANGED <<running, fn, pid, win, calls, procargsBytes, argmax, curr_arg,
                   py_ret, oob, pass, firstResult>>

\* the `error:` label of psutil_proc_environ reached with procargs = pa and
\* procenv = pv: free(procargs) when pa is not NULL, and free(procargs) once
\* more when pv is not NULL; procenv itself is not passed to free
environ_error(pa, pv) ==
    [procargs |-> AfterFree(pa),
     procenv  |-> pv,
     released |-> Released(pa)]

\* the environment entries are copied and the block is decoded: it is
\* returned, or the decoding fails, procargs is set to NULL and the error
\* label is taken
environ_copy ==
    /\ fn = "psutil_proc_environ" /\ pc = "environ_copy"
    /\ \E tail \in IF environ_loop(procargsBytes \o ZeroPastEnd, arg_ptr,
                                   procenvBytes, env_start, argmax, FALSE).oob
                   THEN PastEnd ELSE {ZeroPastEnd} :
        LET r == environ_loop(procargsBytes \o tail, arg_ptr, procenvBytes,
                              env_start, argmax, FALSE)
            size == r.arg_ptr - env_start + 1
        IN  /\ arg_ptr' = r.arg_ptr
            /\ procenvBytes' = r.procenv
            /\ oob' = (oob \/ r.oob)
            /\ \E heap \in IF size > Len(r.procenv) THEN PastEnd ELSE {ZeroPastEnd} :
                 py_ret' = SubSeq(r.procenv \o heap, 1, size)
    /\ \/ /\ procargs' = "freed"                 \* decoded: both are freed
          /\ procenv' = "freed"
          /\ heapLive' = heapLive - 2
          /\ Finish("py_ret", NoError)
       \/ /\ procargs' = environ_error("NULL", procenv).procargs
          /\ procenv' = environ_error("NULL", procenv).procenv
          /\ heapLive' = heapLive - environ_error("NULL", procenv).released
          /\ Finish("NULL", SetError("UnicodeDecodeError", "",
                                    "PyUnicode_DecodeFSDefaultAndSize"))
    /\ UNCHANGED <<running, fn, pid, win, calls, maxAlloc, py_retlist,
                   procargsBytes, argmax, nargs, curr_arg, env_start, pass,
                   firstResult>>

psutil_proc_environ ==
    \/ environ_entry
    \/ environ_skip_exe
    \/ environ_skip_args
    \/ environ_copy

\* the two decoders on a system where pid 1 is the one process running
\* ---------------------------------------------------- psutil_get_proc_list
LIM_INITIAL == 8
SIZEOF_KINFO_PROC == 648
PROCCOUNT_ADDRESS == 1

\* what the actions of psutil_get_proc_list and psutil_is_zombie leave alone
helper_frame == <<running, fn, pid, winx, osx, calls, maxAlloc, py_retlist,
                  sysctl_errno>>

\* `int lim = 8; ... *procCount = 0;`
proclist_entry ==
    /\ fn = "psutil_get_proc_list" /\ pc = "entry"
    /\ lim' = LIM_INITIAL
    /\ procCount' = 0
    /\ pc' = "while"
    /\ UNCHANGED <<helper_frame, err, ret, heapLive, listSize, size2, ptr,
                   procList, asked, fills>>

\* `while (lim-- > 0)`, `size = 0`, and the statements after the loop
proclist_while ==
    /\ fn = "psutil_get_proc_list" /\ pc = "while"
    /\ lim' = lim - 1
    /\ IF lim > 0
       THEN /\ listSize' = 0
            /\ pc' = "sysctl_size"
            /\ UNCHANGED <<err, ret>>
       ELSE /\ Finish("1", SetError("RuntimeError", "",
                                    "couldn't collect PIDs list"))
            /\ UNCHANGED listSize
    /\ UNCHANGED <<helper_frame, heapLive, size2, ptr, procList, procCount,
                   asked, fills>>

\* sysctl(mib, 3, NULL, &size, NULL, 0) and `size2 = size + (size >> 3)`;
\* the sizes stay far below the range of size_t, so the sum does not wrap
proclist_sysctl_size ==
    /\ fn = "psutil_get_proc_list" /\ pc = "sysctl_size"
    /\ \/ /\ Finish("1", PyErr_SetFromOSErrnoWithSyscall(
                             "EPERM", "sysctl(KERN_PROC_ALL)"))
          /\ UNCHANGED <<listSize, size2, asked>>
       \/ /\ \E n \in 0 .. MaxProcs :
               /\ listSize' = n * SIZEOF_KINFO_PROC
               /\ asked' = n * SIZEOF_KINFO_PROC
               /\ size2' = n * SIZEOF_KINFO_PROC
                              + ((n * SIZEOF_KINFO_PROC) \div 8)
          /\ pc' = "malloc"
          /\ UNCHANGED <<err, ret>>
    /\ UNCHANGED <<helper_frame, heapLive, lim, ptr, procList, procCount, fills>>

\* the allocation: size2 bytes when size2 > size, size bytes when that
\* fails or when size2 is not larger; PyErr_NoMemory when ptr is NULL
proclist_malloc ==
    /\ fn = "psutil_get_proc_list" /\ pc = "malloc"
    /\ \/ /\ size2 > listSize                     \* malloc(size2) succeeded
          /\ ptr' = "live"
          /\ listSize' = size2
          /\ heapLive' = heapLive + 1
          /\ pc' = "sysctl_fill"
          /\ UNCHANGED <<err, ret>>
       \/ /\ ptr' = "live"                         \* malloc(size) succeeded
          /\ heapLive' = heapLive + 1
          /\ pc' = "sysctl_fill"
          /\ UNCHANGED <<err, ret, listSize>>
       \/ /\ ptr' = "NULL"                         \* no memory
          /\ Finish("1", PyErr_NoMemory)
          /\ UNCHANGED <<listSize, heapLive>>
    /\ UNCHANGED <<helper_frame, lim, size2, procList, procCount, asked, fills>>

\* (mutant) every failure of the filling sysctl is retried
proclist_retry_Always(e) == TRUE

\* `if (err != ENOMEM)` returns; only ENOMEM goes round the loop again
proclist_retry(e) == ~ (e # "ENOMEM")

\* `if (procCount <= 0)`: the operand is the pointer argument, the address
\* of the caller's counter
proclist_no_pids(procCountPtr) == procCountPtr <= NULL

\* sysctl(mib, 3, ptr, &size, NULL, 0) and what follows it
proclist_sysctl_fill ==
    /\ fn = "psutil_get_proc_list" /\ pc = "sysctl_fill"
    /\ \/ /\ \E e \in {"ENOMEM", "EPERM"} :
               /\ fills' = Append(fills, e)
               /\ IF proclist_retry(e)
                  THEN pc' = "while" /\ UNCHANGED <<err, ret>>
                  ELSE Finish("1", PyErr_SetFromOSErrnoWithSyscall(
                                       e, "sysctl(KERN_PROC_ALL)"))
          /\ ptr' = AfterFree(ptr)
          /\ heapLive' = heapLive - Released(ptr)
          /\ UNCHANGED <<listSize, procList, procCount>>
       \/ /\ \E n \in 0 .. (listSize \div SIZEOF_KINFO_PROC) :
               /\ listSize' = n * SIZEOF_KINFO_PROC
               /\ procCount' = (n * SIZEOF_KINFO_PROC) \div SIZEOF_KINFO_PROC
          /\ fills' = Append(fills, "ok")
          /\ procList' = ptr
          /\ IF proclist_no_pids(PROCCOUNT_ADDRESS)
             THEN Finish("1", SetError("RuntimeError", "", "no PIDs found"))
             ELSE Finish("0", NoError)
          /\ UNCHANGED <<ptr, heapLive>>
    /\ UNCHANGED <<helper_frame, lim, size2, asked>>

psutil_get_proc_list ==
    \/ proclist_entry
    \/ proclist_while
    \/ proclist_sysctl_size
    \/ proclist_malloc
    \/ proclist_sysctl_fill

\* -------------------------------------------------------- psutil_is_zombie
\* psutil_get_kinfo_proc(pid, &kp): -1 with OSError when sysctl fails, -1
\* with NoSuchProcess when it succeeds with len == 0 (the process has gone
\* away), else 0 with the record of the process in kp
psutil_get_kinfo_proc(p) ==
    {[rc |-> -1, e |-> PyErr_SetFromOSErrnoWithSyscall("EPERM", "sysctl"),
      p_stat |-> "unset"]}
    \cup IF p \in running
         THEN {[rc |-> 0, e |-> NoError, p_stat |-> st] : st \in {"SZOMB", "SRUN"}}
         ELSE {[rc |-> -1, e |-> NoSuchProcess("sysctl(kinfo_proc), len == 0"),
                p_stat |-> "unset"]}

\* the value psutil_is_zombie returns for an outcome of the lookup
is_zombie_value(r) ==
    IF r.rc = -1 THEN "0" ELSE IF r.p_stat = "SZOMB" THEN "1" ELSE "0"

\* psutil_is_zombie(pid): the exception psutil_get_kinfo_proc set stays set
psutil_is_zombie ==
    /\ fn = "psutil_is_zombie" /\ pc = "entry"
    /\ \E r \in psutil_get_kinfo_proc(pid) :
          Finish(is_zombie_value(r), r.e)
    /\ UNCHANGED <<helper_frame, heapLive, pl>>

OsxInit == Init /\ running = {1}

OsxNext ==
    \/ OsxCall
    \/ Return
    \/ osx_sysctl_argmax
    \/ osx_sysctl_procargs
    \/ psutil_proc_cmdline
    \/ psutil_proc_environ
    \/ psutil_get_proc_list
    \/ psutil_is_zombie

OsxSpec == OsxInit /\ [][OsxNext]_vars

\* =================================================================== claims
Done == pc = "done"

\* the query made a liveness check and the last one returned r
LivenessSaid(r) == liveness # <<>> /\ liveness[Len(liveness)] = r

\* every handle this query opened has been closed exactly once
HandlesBalanced ==
    /\ open = {}
    /\ \A h \in 1 .. MaxHandles : closeCnt[h] = (IF h < nextH THEN 1 ELSE 0)

\* GetProcessTimes has failed with ERROR_ACCESS_DENIED
TimesAccessDenied ==
    /\ Done /\ fn = "psutil_proc_times"
    /\ "GetProcessTimes" \in calls
    /\ retVal = "FALSE" /\ lastError = "ERROR_ACCESS_DENIED"

\* C1: in psutil_proc_times, when GetProcessTimes fails with
\* ERROR_ACCESS_DENIED a liveness check decides the outcome: NoSuchProcess
\* only for a pid that is no longer running, AccessDenied for one that is.
C1_TimesDecidedByLiveness ==
    TimesAccessDenied =>
        /\ LivenessSaid(0) \/ LivenessSaid(1)
        /\ err.kind = "NoSuchProcess" => (LivenessSaid(0) /\ pid \notin running)
        /\ pid \in running => err.kind = "AccessDenied"

\* C2: whenever the working-set query of psutil_GetProcWsetInformation ends
\* in AccessDenied, a liveness check made after the failing
\* NtQueryVirtualMemory call found the pid still running.
C2_WsetAccessDeniedMeansAlive ==
    (Done /\ fn = "psutil_proc_memory_uss" /\ status # "unset"
          /\ err.kind = "AccessDenied")
        => LivenessSaid(1)

\* C3: in psutil_proc_exe, whenever the final NtQuerySystemInformation
\* status is not a success, one liveness check follows and exactly one
\* error is raised: NoSuchProcess iff the check reports the pid absent,
\* otherwise the fatal error carrying the NT status and the call name; no
\* value is returned.
C3_ExeFailureLiveness ==
    [][(fn = "psutil_proc_exe" /\ pc = "exe_result" /\ ~ NT_SUCCESS(status)
            /\ pc' # pc)
        => /\ pc' = "done"
           /\ ret' = "NULL"
           /\ Len(liveness') = Len(liveness) + 1
           /\ "psutil_pid_is_running" \in calls'
           /\ err'.kind = "NoSuchProcess" <=> liveness'[Len(liveness')] = 0
           /\ err'.kind # "NoSuchProcess" =>
                err' = [kind |-> "NTStatusError", code |-> status,
                        syscall |-> "NtQuerySystemInformation"]]_vars

C3_Witness ==
    /\ Done /\ fn = "psutil_proc_exe"
    /\ status = "STATUS_UNSUCCESSFUL"
    /\ liveness = <<0>>
    /\ err.kind = "NoSuchProcess" /\ ret = "NULL"

\* C4: psutil_proc_kill closes the process handle it opened exactly once on
\* every exit path; after it returns no handle opened by it remains open.
C4_KillClosesHandle ==
    (Done /\ fn = "psutil_proc_kill") => HandlesBalanced

\* C5: every handle opened by psutil_proc_wait, psutil_proc_threads,
\* psutil_proc_memory_maps and _psutil_user_token_from_pid is closed exactly
\* once before the function returns, on success and on failure.
C5_HandlesClosedOnce ==
    /\ \A h \in 1 .. MaxHandles : closeCnt[h] <= 1
    /\ (Done /\ fn \in {"psutil_proc_wait", "psutil_proc_threads",
                        "psutil_proc_memory_maps", "_psutil_user_token_from_pid"})
          => HandlesBalanced

C5_Witness ==
    /\ Done /\ fn = "psutil_proc_threads"
    /\ err.syscall = "GetThreadTimes"
    /\ hThread # NULL /\ hThreadSnap # NULL /\ hThread # hThreadSnap
    /\ closeCnt[hThread] = 1 /\ closeCnt[hThreadSnap] = 1

\* C6: for pid 0, psutil_proc_kill, psutil_proc_wait, psutil_proc_exe and
\* psutil_proc_threads fail with AccessDenied at once: no native call, no
\* liveness check, no handle and no buffer.
C6_PidZeroImmediate ==
    (pid = 0 /\ fn \in {"psutil_proc_kill", "psutil_proc_wait",
                        "psutil_proc_exe", "psutil_proc_threads"})
        => /\ pc \in {"entry", "done"}
           /\ calls = {} /\ liveness = <<>>
           /\ open = {} /\ nextH = 1 /\ badClose = 0
           /\ heapLive = 0 /\ maxAlloc = 0 /\ py_retlist = PyNull
           /\ Done => (ret = "NULL" /\ err.kind = "AccessDenied")

C6_Witness ==
    /\ Done /\ pid = 0 /\ fn = "psutil_proc_threads"
    /\ err.kind = "AccessDenied"

\* the outcomes of psutil_proc_wait other than the signalled one
WaitOutcomes ==
    /\ retVal = "WAIT_TIMEOUT" =>
          (ret = "NULL" /\ err.kind = "TimeoutExpired")
    /\ retVal = "WAIT_ABANDONED" =>
          (ret = "NULL" /\ err.kind = "TimeoutAbandoned")
    /\ retVal = "WAIT_FAILED" =>
          (ret = "NULL" /\ err.kind = "OSError"
                        /\ err.syscall = "WaitForSingleObject")

WaitReturned ==
    Done /\ fn = "psutil_proc_wait" /\ "WaitForSingleObject" \in calls

\* C7 (as stated): psutil_proc_wait maps each wait result to one outcome:
\* WAIT_OBJECT_0 returns the exit code, WAIT_TIMEOUT raises TimeoutExpired,
\* WAIT_ABANDONED raises TimeoutAbandoned, WAIT_FAILED raises an OS error.
C7_WaitOutcomesAsStated ==
    /\ WaitReturned =>
          /\ WaitOutcomes
          /\ retVal = "WAIT_OBJECT_0" => (ret = "ExitCode" /\ err = NoError)
    /\ (fn = "psutil_proc_wait" /\ ret = "ExitCode") => retVal = "WAIT_OBJECT_0"

\* C7 (amended): as stated, except that a signalled wait returns the exit
\* code only when GetExitCodeProcess succeeds, and raises the OS error of
\* GetExitCodeProcess when it fails.
C7_WaitOutcomes ==
    /\ WaitReturned =>
          /\ WaitOutcomes
          /\ retVal = "WAIT_OBJECT_0" =>
                \/ ret = "ExitCode" /\ err = NoError
                \/ ret = "NULL" /\ err.kind = "OSError"
                                /\ err.syscall = "GetExitCodeProcess"
    /\ (fn = "psutil_proc_wait" /\ ret = "ExitCode") => retVal = "WAIT_OBJECT_0"

C7_Witness ==
    /\ WaitReturned
    /\ retVal = "WAIT_ABANDONED"
    /\ err.kind = "TimeoutAbandoned"

\* OpenProcess of psutil_proc_wait failed with the "no such process" code
WaitNoSuchProcess ==
    /\ Done /\ fn = "psutil_proc_wait" /\ pid # 0
    /\ "OpenProcess" \in calls /\ hProcess = NULL
    /\ lastError = "ERROR_INVALID_PARAMETER"

\* C8 (as stated): psutil_proc_wait on a non-zero pid that is not running
\* returns the NoSuchProcess error, not a success value.
C8_WaitRaisesNoSuchProcess ==
    WaitNoSuchProcess => (ret = "NULL" /\ err.kind = "NoSuchProcess")

\* C8 (amended): psutil_proc_wait on a non-zero pid that is not running
\* returns None with no error set; NoSuchProcess is not raised.
C8_WaitReturnsNone ==
    WaitNoSuchProcess => (ret = "None" /\ err = NoError)

C8_Witness ==
    /\ WaitNoSuchProcess
    /\ pid \notin running
    /\ ret = "None"

\* TerminateProcess of psutil_proc_kill failed with ERROR_ACCESS_DENIED
KillAccessDenied ==
    /\ Done /\ fn = "psutil_proc_kill"
    /\ "TerminateProcess" \in calls
    /\ retVal = "FALSE" /\ lastError = "ERROR_ACCESS_DENIED"

\* C9: when TerminateProcess fails with ERROR_ACCESS_DENIED (the target died
\* after its handle was opened), psutil_proc_kill returns None with no error
\* set: neither AccessDenied nor NoSuchProcess nor an OS error is raised.
C9_KillAfterDeathSilent ==
    KillAccessDenied => (ret = "None" /\ err = NoError)

C9_Witness ==
    /\ KillAccessDenied
    /\ pid \notin running
    /\ ret = "None" /\ err = NoError

\* number of times a size can be doubled without passing the ceiling
RECURSIVE Doublings(_)
Doublings(size) ==
    IF size * 2 > WSET_MAX_SIZE THEN 0 ELSE 1 + Doublings(size * 2)

\* C10: psutil_GetProcWsetInformation never allocates more than 256 MiB;
\* when doubling would pass the ceiling it fails with RuntimeError, so the
\* number of native calls is bounded.
C10_WsetCeiling ==
    fn = "psutil_proc_memory_uss" =>
        /\ maxAlloc <= WSET_MAX_SIZE
        /\ buffer = "live" => bufferSize <= WSET_MAX_SIZE
        /\ ntCalls <= Doublings(WSET_INITIAL_SIZE) + 1
        /\ bufferSize > WSET_MAX_SIZE =>
              (Done /\ ret = "NULL" /\ err.kind = "RuntimeError" /\ heapLive = 0)

C10_Witness ==
    /\ Done /\ fn = "psutil_proc_memory_uss"
    /\ err.kind = "RuntimeError"
    /\ ntCalls = Doublings(WSET_INITIAL_SIZE) + 1
    /\ maxAlloc = WSET_MAX_SIZE

\* C11: in the doubling path of psutil_proc_exe every buffer allocated and
\* passed to NtQuerySystemInformation is at most 0x7FFF*2 bytes; a query
\* still reporting length mismatch at the ceiling ends the loop with a
\* failure instead of a larger allocation.
C11_ExeDoublingCeiling ==
    fn = "psutil_proc_exe" =>
        /\ maxAlloc <= EXE_MAX_SIZE
        /\ buffer = "live" => bufferSize <= EXE_MAX_SIZE

\* C12: in psutil_proc_exe, when the first query reports length mismatch
\* and stores a required length greater than the initial buffer size, the
\* retry allocates exactly that length, nothing is doubled, and the retry
\* is the second and last native call.
C12_SizedRetryExact ==
    [][(fn = "psutil_proc_exe" /\ pc = "exe_sized" /\ ntCalls' = ntCalls + 1)
        => /\ MaximumLength > EXE_INITIAL_SIZE
           /\ maxAlloc' = MaximumLength
           /\ bufferSize' = EXE_INITIAL_SIZE
           /\ ntCalls' = 2
           /\ pc' = "exe_result"]_vars

C12_Witness ==
    /\ Done /\ fn = "psutil_proc_exe"
    /\ ret = "py_exe" /\ status = "STATUS_SUCCESS"
    /\ ntCalls = 2
    /\ bufferSize = EXE_INITIAL_SIZE
    /\ maxAlloc = 3 * EXE_INITIAL_SIZE

\* C13: psutil_proc_exe never ends on a length mismatch straight after the
\* retry sized from the reported length: when that retry reports length
\* mismatch again the doubling strategy has been entered before the query
\* returns.
C13_SizedRetryFallsBack ==
    (Done /\ fn = "psutil_proc_exe" /\ status = "STATUS_INFO_LENGTH_MISMATCH"
          /\ err.kind # "MemoryError")
        => bufferSize > EXE_INITIAL_SIZE

\* C14: the retry loops of _psutil_user_token_from_pid (GetTokenInformation)
\* and psutil_proc_username (LookupAccountSidW) are capped: a query that has
\* entered one of them returns, even when the native call reports
\* ERROR_INSUFFICIENT_BUFFER on every attempt.
C14_RetryLoopsCapped ==
    (InToken /\ pc \in {"GetTokenInformation", "LookupAccountSidW"}) ~> Done

\* C15: in psutil_proc_username a LookupAccountSidW failure with
\* ERROR_NONE_MAPPED ends the query at once with AccessDenied, and the name,
\* domain and token buffers have all been freed, each once.
C15_NoneMappedAccessDenied ==
    (fn = "psutil_proc_username" /\ lastError = "ERROR_NONE_MAPPED")
        => /\ Done /\ ret = "NULL"
           /\ err = AccessDenied("LookupAccountSidW -> ERROR_NONE_MAPPED")
           /\ userName = "freed" /\ domainName = "freed" /\ userToken = "freed"
           /\ heapLive = 0 /\ badFree = 0

C15_Witness ==
    /\ Done /\ fn = "psutil_proc_username"
    /\ "LookupAccountSidW" \in calls
    /\ lastError = "ERROR_NONE_MAPPED"
    /\ err.kind = "AccessDenied"
    /\ userToken = "freed"

\* C16: psutil_proc_memory_uss returns, for any working-set table, the
\* number of entries whose Shared flag is false or whose ShareCount is at
\* most 1; for the table [not shared, shared once, shared three times] the
\* result is 2.
C16_UssCountsPrivate ==
    (Done /\ fn = "psutil_proc_memory_uss" /\ ret = "NumberOfPrivatePages")
        => /\ NumberOfPrivatePages =
                Cardinality({k \in 1 .. Len(wsInfo) :
                                \/ wsInfo[k].Shared = FALSE
                                \/ wsInfo[k].ShareCount \in {0, 1}})
           /\ wsInfo = WsExample => NumberOfPrivatePages = 2
           /\ err = NoError /\ buffer = "freed" /\ open = {}

C16_Witness ==
    /\ Done /\ fn = "psutil_proc_memory_uss"
    /\ ret = "NumberOfPrivatePages"
    /\ wsInfo = WsExample
    /\ i = 3
    /\ NumberOfPrivatePages = 2

\* offsets of the NUL bytes of m from offset `from` to its declared end
NulOffsets(m, from) == {p \in from .. Len(m) - 1 : m[p + 1] = NUL}

MinOf(S) == CHOOSE x \in S : \A y \in S : x <= y

\* the j-th smallest element of S
NthOf(S, j) == CHOOSE x \in S : Cardinality({y \in S : y <= x}) = j

\* offset of the first byte after the executable path and its NUL padding
\* (the declared end when there is none)
FirstArg(m) ==
    IF NulOffsets(m, SIZEOF_INT) = {}
    THEN Len(m)
    ELSE LET z == MinOf(NulOffsets(m, SIZEOF_INT))
             nonNul == {p \in z + 1 .. Len(m) - 1 : m[p + 1] # NUL}
         IN  IF nonNul = {} THEN Len(m) ELSE MinOf(nonNul)

\* the NUL bytes that terminate the fields which follow the padding
Terminators(m) == NulOffsets(m, FirstArg(m))

\* the NUL-terminated fields present after the padding, in buffer order
FieldsPresent(m) ==
    [j \in 1 .. Cardinality(Terminators(m)) |->
        LET from == IF j = 1 THEN FirstArg(m)
                    ELSE NthOf(Terminators(m), j - 1) + 1
        IN  SubSeq(m, from + 1, NthOf(Terminators(m), j))]

\* psutil_proc_cmdline has decoded procargsBytes
CmdlineDecoded == Done /\ fn = "psutil_proc_cmdline" /\ pass >= 1

C18_NoReadPastEnd ==
    fn \in OsxFunctions => ~ oob

EnvStart(m) ==
    LET argc == IntOf(m)
    IN  IF argc = 0 THEN FirstArg(m)
        ELSE IF Cardinality(Terminators(m)) < argc THEN Len(m)
             ELSE NthOf(Terminators(m), argc) + 1

\* psutil_proc_environ has built and returned an environment block
EnvironDecoded == Done /\ fn = "psutil_proc_environ" /\ ret = "py_ret"

\* C20: psutil_proc_environ starts the environment block after exactly one
\* leading field (the executable path), its NUL padding and argc argument
\* fields; the block it builds is the buffer from that offset on, byte for
\* byte and in order, up to where the copy stopped, and holds nothing else.
C20_EnvironSkipsExeAndArgs ==
    EnvironDecoded =>
        /\ env_start = EnvStart(procargsBytes)
        /\ Len(procenvBytes) = argmax - env_start
        /\ \A p \in env_start .. argmax - 1 :
              procenvBytes[p - env_start + 1] =
                  (IF p < arg_ptr THEN procargsBytes[p + 1] ELSE NUL)
        /\ (arg_ptr < argmax /\ procargsBytes[arg_ptr + 1] # NUL)
              => NulOffsets(procargsBytes, arg_ptr) = {}

C20_Witness ==
    /\ EnvironDecoded
    /\ procargsBytes = IntBytes(1) \o <<1, NUL, 2, NUL, 1, NUL>>
    /\ env_start = SIZEOF_INT + 4
    /\ procenvBytes = <<1, NUL>>

\* psutil_ppid_map has returned its dict
PpidMapReturned == Done /\ fn = "psutil_ppid_map" /\ ret = "py_retdict"

\* C21: psutil_ppid_map takes one snapshot and makes no other query; the
\* dict it returns holds, for exactly the process ids the enumeration of that
\* snapshot yielded, the parent id of the same snapshot entry.
C21_PpidMapOneSnapshot ==
    fn = "psutil_ppid_map" =>
        /\ snapCnt <= 1
        /\ calls \subseteq {"CreateToolhelp32Snapshot", "Process32First", "Process32Next"}
        /\ PpidMapReturned =>
              /\ snapCnt = 1
              /\ Len(py_retdict.items) = pe
              /\ {py_retdict.items[j] : j \in 1 .. Len(py_retdict.items)} =
                     {<<snapshot[k].th32ProcessID, snapshot[k].th32ParentProcessID>> :
                        k \in 1 .. pe}
              /\ open = {} /\ closeCnt[handle] = 1

C21_Witness ==
    /\ PpidMapReturned
    /\ pe = 3
    /\ py_retdict.items = << <<0, 0>>, <<1, 0>>, <<2, 1>> >>

SuspendResume == {"NtSuspendProcess", "NtResumeProcess"}

\* C22: psutil_proc_suspend_or_resume invokes exactly one primitive once the
\* handle is acquired, NtSuspendProcess for a true flag and NtResumeProcess
\* for a false one, and none otherwise; the handle is requested with
\* PROCESS_SUSPEND_RESUME in both cases and is closed before the result or
\* the error of a failing primitive is returned.
C22_SuspendOrResume ==
    fn = "psutil_proc_suspend_or_resume" =>
        /\ ntCalls <= 1
        /\ "OpenProcess" \in calls => access = "PROCESS_SUSPEND_RESUME"
        /\ (Done /\ hProcess = NULL) => (ntCalls = 0 /\ calls \cap SuspendResume = {})
        /\ (Done /\ hProcess # NULL) =>
              /\ ntCalls = 1
              /\ calls \cap SuspendResume =
                     {IF suspend THEN "NtSuspendProcess" ELSE "NtResumeProcess"}
              /\ open = {} /\ closeCnt[hProcess] = 1 /\ badClose = 0
              /\ IF status = "STATUS_SUCCESS"
                 THEN ret = "None" /\ err = NoError
                 ELSE /\ ret = "NULL"
                      /\ err = psutil_SetFromNTStatusErr(status, "NtSuspend|ResumeProcess")

C22_Witness ==
    /\ Done /\ fn = "psutil_proc_suspend_or_resume"
    /\ ~ suspend
    /\ calls \cap SuspendResume = {"NtResumeProcess"}
    /\ status = "STATUS_ACCESS_DENIED"
    /\ ret = "NULL" /\ open = {}

\* C23: psutil_proc_wait does not hold the interpreter lock while it is
\* blocked in WaitForSingleObject and holds it again, no other thread running
\* under it, whenever it goes on to build a result or raise an error; another
\* thread runs a query only while the lock is released.
C23_WaitReleasesLock ==
    /\ (fn = "psutil_proc_wait" /\ pc = "WaitForSingleObject") => ~ gil
    /\ (fn = "psutil_proc_wait" /\ pc \in {"GetExitCodeProcess", "done"})
          => (gil /\ otherThread = "idle")
    /\ otherThread = "running" => ~ gil

\* a query of another thread started and completed while the wait was blocked
C23_Witness ==
    /\ fn = "psutil_proc_wait" /\ pc = "WaitForSingleObject"
    /\ otherThread = "idle" /\ otherDone
    /\ ~ gil

\* C24: once psutil_proc_threads is resolving the threads of the process,
\* neither a failing OpenThread nor a failing GetThreadTimes makes the call
\* fail: the entry is skipped and the list of the remaining threads returned.
C24_ThreadsSkipUnresolvable ==
    (Done /\ fn = "psutil_proc_threads"
          /\ calls \cap {"OpenThread", "GetThreadTimes"} # {})
        => (ret = "py_retlist" /\ err = NoError)

\* the walk of psutil_proc_memory_maps has returned its list
MapsReturned == Done /\ fn = "psutil_proc_memory_maps" /\ ret = "py_retlist"

\* the regions at index set K of the walk, as <<base, size>> pairs in order
RECURSIVE DescriptorsOf(_, _)
DescriptorsOf(rs, keep) ==
    IF rs = << >> THEN << >>
    ELSE IF keep[1]
         THEN << <<rs[1].BaseAddress, rs[1].RegionSize>> >>
                  \o DescriptorsOf(Tail(rs), Tail(keep))
         ELSE DescriptorsOf(Tail(rs), Tail(keep))

\* C25 as stated: psutil_proc_memory_maps returns one descriptor for every
\* region VirtualQueryEx reports at or below the maximum application address,
\* anonymous regions included.
C25_OneDescriptorPerRegion ==
    MapsReturned =>
        py_retlist.items = DescriptorsOf(regions, [k \in 1 .. Len(regions) |-> TRUE])

\* C25 (amended): psutil_proc_memory_maps returns one descriptor, in walk
\* order, for every region VirtualQueryEx reports at or below the maximum
\* application address whose mapped file name is obtained, and none for a
\* region without one.
C25_OneDescriptorPerNamedRegion ==
    MapsReturned =>
        /\ py_retlist.items =
               DescriptorsOf(regions, [k \in 1 .. Len(regions) |-> regions[k].named])
        /\ \A k \in 1 .. Len(regions) : regions[k].BaseAddress <= MaxAddr

C25_Witness ==
    /\ MapsReturned
    /\ Len(regions) = 3
    /\ regions[1].named /\ ~ regions[2].named /\ regions[3].named
    /\ Len(py_retlist.items) = 2

\* the walk is under way
MapsWalking == fn = "psutil_proc_memory_maps" /\ pc = "VirtualQueryEx"

\* C26: in the walk of psutil_proc_memory_maps a region without a file name
\* does not fail the query, each region is followed by the one at base +
\* RegionSize, the descriptors returned have strictly increasing base
\* addresses none of which exceeds the maximum application address, and the
\* walk, once started, terminates.
C26_MapsWalk ==
    /\ [](fn = "psutil_proc_memory_maps" =>
            /\ (regions # << >>) => regions[1].BaseAddress = 0
            /\ \A k \in 1 .. Len(regions) - 1 :
                  regions[k + 1].BaseAddress =
                      regions[k].BaseAddress + regions[k].RegionSize
            /\ (regions # << >> /\ pc = "VirtualQueryEx") =>
                  baseAddress = regions[Len(regions)].BaseAddress
                                    + regions[Len(regions)].RegionSize
            /\ \A k \in 1 .. Len(py_retlist.items) :
                  /\ py_retlist.items[k][1] <= MaxAddr
                  /\ k > 1 => py_retlist.items[k - 1][1] < py_retlist.items[k][1]
            /\ (Done /\ hProcess # NULL) => (ret = "py_retlist" /\ err = NoError))
    /\ MapsWalking ~> Done

C26_Witness ==
    /\ MapsReturned
    /\ baseAddress > MaxAddr
    /\ \E k \in 1 .. Len(regions) : ~ regions[k].named
    /\ Len(py_retlist.items) >= 2

\* the sizes passed to NtQueryVirtualMemory start at 0x8000 and double
WsetSizesDouble ==
    /\ Len(passed) = ntCalls
    /\ passed # << >> => passed[1] = WSET_INITIAL_SIZE
    /\ \A k \in 1 .. Len(passed) - 1 : passed[k + 1] = 2 * passed[k]

\* psutil_GetProcWsetInformation has made a call and left its retry loop
WsetLoopLeft ==
    fn = "psutil_proc_memory_uss" /\ ntCalls >= 1 /\ pc # "NtQueryVirtualMemory"

\* C27 as stated: psutil_GetProcWsetInformation retries until the first
\* response that is not a length mismatch, so that the number of native calls
\* is the number of mismatch responses plus one, with sizes 0x8000, 0x10000,
\* ... and every rejected buffer freed before the next is allocated.
C27_RetriesUntilNotMismatch ==
    WsetLoopLeft =>
        /\ ntCalls = mismatches + 1
        /\ WsetSizesDouble
        /\ heapLive <= 1

\* C27 (amended): the sizes passed are 0x8000, 0x10000, ... and at most one
\* buffer is live at any time; the loop is left at the first response that is
\* not a length mismatch, after mismatches + 1 calls and with the buffer of
\* that call (which a successful call hands to the caller), unless after a
\* mismatch the doubled size exceeds 256 MiB or cannot be allocated: then the
\* function fails at once, after as many calls as mismatches, no buffer live.
C27_RetriesUntilNotMismatchOrCeiling ==
    fn = "psutil_proc_memory_uss" =>
        /\ WsetSizesDouble
        /\ heapLive <= 1
        /\ pc = "NtQueryVirtualMemory" =>
              /\ mismatches = ntCalls
              /\ buffer = "live" /\ heapLive = 1
              /\ bufferSize = IF ntCalls = 0 THEN WSET_INITIAL_SIZE
                              ELSE 2 * passed[ntCalls]
        /\ pc \in {"uss_count", "wset_error"} =>
              /\ ntCalls = mismatches + 1
              /\ buffer = "live" /\ heapLive = 1
              /\ bufferSize = passed[ntCalls]
              /\ (pc = "uss_count") <=> (status = "STATUS_SUCCESS")
        /\ WsetLoopLeft =>
              \/ ntCalls = mismatches + 1
              \/ /\ ntCalls = mismatches
                 /\ Done /\ ret = "NULL" /\ heapLive = 0
                 /\ err = IF 2 * passed[ntCalls] > WSET_MAX_SIZE
                          THEN SetError("RuntimeError", "",
                                        "NtQueryVirtualMemory bufsize is too large")
                          ELSE PyErr_NoMemory

C27_Witness ==
    /\ fn = "psutil_proc_memory_uss" /\ pc = "uss_count"
    /\ passed = <<WSET_INITIAL_SIZE, 2 * WSET_INITIAL_SIZE, 4 * WSET_INITIAL_SIZE>>
    /\ mismatches = 2
    /\ bufferSize = 4 * WSET_INITIAL_SIZE /\ buffer = "live"

\* C28: on every NtQuerySystemInformation call of psutil_proc_exe the
\* capacity declared in ImageName.MaximumLength equals the size in bytes of
\* the buffer allocated and passed.
C28_DeclaredIsAllocated ==
    (fn = "psutil_proc_exe" /\ ntCalls >= 1) => declaredSize = allocatedSize

\* C29: whichever way psutil_proc_environ returns, every buffer it allocated
\* has been freed exactly once: neither procargs nor procenv is still
\* allocated and nothing was freed twice.
C29_EnvironFreesBuffers ==
    (Done /\ fn = "psutil_proc_environ") =>
        /\ heapLive = 0
        /\ procargs # "live"
        /\ procenv # "live"
        /\ badFree = 0

\* C30: _psutil_user_token_from_pid returns either the one live buffer of its
\* last attempt, or NULL with every buffer it allocated freed.
C30_TokenBufferReleased ==
    (Done /\ fn = "_psutil_user_token_from_pid") =>
        IF ret = "userToken"
        THEN heapLive = 1 /\ userToken = "live"
        ELSE heapLive = 0 /\ userToken # "live"

\* C36: whenever psutil_proc_kill returns success the target is not
\* running afterwards (TerminateProcess succeeded, or the process was dead
\* already); a live process that refuses termination with
\* ERROR_ACCESS_DENIED is never reported as killed.
C36_KilledMeansGone ==
    (Done /\ fn = "psutil_proc_kill" /\ ret = "None") => pid \notin running

\* C37: the length psutil_proc_environ hands to the decoder,
\* arg_ptr - env_start + 1, never exceeds the arg_end - env_start bytes
\* allocated for procenv, so the decoder reads no byte past procenv.
C37_DecodeInsideProcenv ==
    (fn = "psutil_proc_environ" /\ procenv # "NULL")
        => Len(py_ret) <= Len(procenvBytes)

\* C38: psutil_proc_threads calls CloseHandle on handles it opened only: the
\* error path after a failed CreateToolhelp32Snapshot does not close the
\* snapshot handle, and no thread handle is closed after a failed OpenThread.
C38_ThreadsCloseOnlyOpened ==
    fn = "psutil_proc_threads" => badClose = 0

\* C31: psutil_proc_threads checks the liveness of the pid before it takes
\* the thread snapshot: a snapshot is only taken after the check reported the
\* pid running; when the check reports a non-zero pid absent the call returns
\* NoSuchProcess with no snapshot created and no thread handle opened; a
\* thread list is never returned for a pid the check reported absent.
C31_ThreadsLivenessFirst ==
    fn = "psutil_proc_threads" =>
        /\ "CreateToolhelp32Snapshot" \in calls => liveness = <<1>>
        /\ (liveness # << >> /\ liveness[1] = 0) =>
              /\ Done /\ ret = "NULL"
              /\ err = NoSuchProcess("psutil_pid_is_running -> 0")
              /\ calls = {"psutil_pid_is_running"}
              /\ hThreadSnap = NULL /\ hThread = NULL
              /\ open = {} /\ nextH = 1
        /\ ret = "py_retlist" => liveness = <<1>>

C31_Witness ==
    /\ Done /\ fn = "psutil_proc_threads"
    /\ pid # 0 /\ pid \notin running
    /\ liveness = <<0>>
    /\ err = NoSuchProcess("psutil_pid_is_running -> 0")
    /\ "CreateToolhelp32Snapshot" \notin calls

\* psutil_proc_is_suspended obtained the process record and returned
SuspendedReturned ==
    Done /\ fn = "psutil_proc_is_suspended" /\ ret # "NULL"

\* C32: psutil_proc_is_suspended returns True exactly when every thread of
\* the process record is in state Waiting with wait reason Suspended (so
\* also when the record has no thread), returns False as soon as it meets
\* one thread that is not, and on both paths frees the process-info buffer
\* exactly once.
C32_IsSuspended ==
    /\ SuspendedReturned =>
          /\ ret \in {"True", "False"} /\ err = NoError
          /\ ret = "True" <=>
                \A k \in 1 .. Len(Threads) :
                    Threads[k] = [ThreadState |-> "Waiting",
                                  WaitReason |-> "Suspended"]
          /\ ret = "False" =>
                /\ i < Len(Threads)
                /\ Threads[i + 1] # [ThreadState |-> "Waiting",
                                      WaitReason |-> "Suspended"]
                /\ \A k \in 1 .. i :
                      Threads[k] = [ThreadState |-> "Waiting",
                                    WaitReason |-> "Suspended"]
          /\ buffer = "freed" /\ heapLive = 0 /\ badFree = 0
    /\ (fn = "psutil_proc_is_suspended" /\ pc = "for") =>
          (buffer = "live" /\ heapLive = 1)

C32_Witness ==
    /\ SuspendedReturned /\ ret = "False"
    /\ Len(Threads) = 2 /\ i = 1
    /\ Threads[2].ThreadState = "Waiting"
    /\ Threads[2].WaitReason = "Executive"
    /\ buffer = "freed"

\* the outcomes of the filling sysctl before the last one
EarlierFills == SubSeq(fills, 1, Len(fills) - 1)

\* every entry of the sequence q is v
AllAre(q, v) == \A k \in 1 .. Len(q) : q[k] = v

\* C33: psutil_get_proc_list makes at most 8 attempts. In each one it asks
\* sysctl for the size and allocates that size plus one eighth (the exact
\* size when that allocation fails); it goes round again only when the
\* filling sysctl failed with ENOMEM, with the buffer of the failed attempt
\* freed; any other failure of the filling sysctl fails the call at once;
\* after 8 ENOMEM attempts it fails with "couldn't collect PIDs list" and no
\* buffer allocated; on success the caller owns exactly one buffer and
\* *procCount is the number of bytes written divided by the record size.
C33_ProcListAttempts ==
    fn = "psutil_get_proc_list" =>
        /\ Len(fills) <= LIM_INITIAL
        /\ pc \in {"while", "sysctl_size", "malloc", "sysctl_fill"} =>
              /\ AllAre(fills, "ENOMEM")
              /\ Len(fills) + (IF pc = "while" THEN 0 ELSE 1) + lim = LIM_INITIAL
        /\ pc \in {"while", "sysctl_size", "malloc"} => heapLive = 0
        /\ pc = "sysctl_fill" =>
              /\ ptr = "live" /\ heapLive = 1
              /\ listSize \in {asked + (asked \div 8), asked}
        /\ Done =>
              /\ AllAre(EarlierFills, "ENOMEM")
              /\ (fills # << >> /\ fills[Len(fills)] = "EPERM") =>
                    /\ ret = "1" /\ heapLive = 0
                    /\ err = PyErr_SetFromOSErrnoWithSyscall(
                                  "EPERM", "sysctl(KERN_PROC_ALL)")
              /\ (Len(fills) = LIM_INITIAL /\ AllAre(fills, "ENOMEM")) <=>
                    err = SetError("RuntimeError", "", "couldn't collect PIDs list")
              /\ err.kind = "RuntimeError" => (ret = "1" /\ heapLive = 0)
              /\ ret = "0" <=> (fills # << >> /\ fills[Len(fills)] = "ok")
              /\ ret = "0" =>
                    /\ err = NoError
                    /\ procList = "live" /\ heapLive = 1
                    /\ procCount * SIZEOF_KINFO_PROC = listSize
              /\ ret # "0" => heapLive = 0

C33_Witness ==
    /\ Done /\ fn = "psutil_get_proc_list"
    /\ Len(fills) = LIM_INITIAL /\ AllAre(fills, "ENOMEM")
    /\ lim = -1 /\ heapLive = 0 /\ ptr = "freed"
    /\ err = SetError("RuntimeError", "", "couldn't collect PIDs list")

\* C35: psutil_get_proc_list never reports success with an empty list: a
\* count of zero entries yields the error "no PIDs found", so on every
\* successful return *procCount > 0.
C35_NoEmptySuccess ==
    (Done /\ fn = "psutil_get_proc_list" /\ ret = "0") => procCount > 0

\* C39: psutil_is_zombie returns a plain value and leaves no error pending;
\* when the kinfo lookup fails it returns 0 with no exception left set.
C39_IsZombieNoPendingError ==
    (Done /\ fn = "psutil_is_zombie") => (ret \in {"0", "1"} /\ err = NoError)

\* C34: a failed sysctl(KERN_PROCARGS2) is classified by the error code of
\* that failing call, after a liveness check: pid gone gives NoSuchProcess,
\* pid present and EINVAL gives NoSuchProcess, pid present and EIO gives
\* AccessDenied, anything else a fatal OS error carrying the code of the
\* sysctl; the liveness check in between does not change the code that is
\* classified.
C34_ClassifiesSysctlErrno ==
    (Done /\ fn \in OsxFunctions /\ sysctl_errno # "unset") =>
        IF pid \notin running
        THEN err = NoSuchProcess("psutil_pid_exists -> 0")
        ELSE CASE sysctl_errno = "EINVAL" ->
                    err = NoSuchProcess("sysctl(KERN_PROCARGS2) -> EINVAL")
               [] sysctl_errno = "EIO" ->
                    err = AccessDenied("sysctl(KERN_PROCARGS2) -> EIO")
               [] OTHER ->
                    err = PyErr_SetFromOSErrnoWithSyscall(
                              sysctl_errno, "sysctl(KERN_PROCARGS2)")

====
